---- MODULE Spec2Model ----
(***************************************************************************)
(* Verification model of the CVision v3 backend services:                  *)
(*   - the singleton collaborator services and their initialize/close      *)
(*     lifecycle (chat, embedding, search, candidate matcher, analyzer),    *)
(*   - ChatService.stream_chat, the server-sent-event generator,            *)
(*   - CandidateMatcher.match, the scoring and ranking pipeline,            *)
(*   - LastenheftAnalyzer.analyze, the three-way fan-out.                   *)
(* Floats are modelled exactly: scores are rationals, totals are integers   *)
(* in units of 1e-4 after round(x, 4).                                      *)
(***************************************************************************)
EXTENDS Integers, Sequences, FiniteSets, TLC

VARIABLES
    settings,            \* app.core.config.settings: which credentials are non-empty
    chat_service,        \* ChatService singleton: [initialized, client]
    embedding_service,   \* EmbeddingService singleton: [initialized, client]
    search_service,      \* SearchService singleton: [initialized]
    candidate_matcher,   \* CandidateMatcher singleton: [initialized, client]
    lastenheft_analyzer, \* LastenheftAnalyzer singleton: [initialized, client]
    index,               \* documents the search index answers with, in relevance order
    sc_pc,               \* position of the stream_chat generator
    sc_events,           \* events yielded to the consumer so far
    sc_calls,            \* collaborator methods stream_chat has invoked
    sc_deltas,           \* chunks received from the LLM stream
    sc_stage,            \* outcome of each stage: "none", "ok" or "fail"
    sc_exc,              \* exception that escaped the generator, or NoExc
    request,             \* required skills of the pending match request
    llm_behaviour,       \* how the explanation LLM answers in this run
    m_pc,                \* position of match()
    m_calls,             \* collaborator methods match() has invoked, with arguments
    m_results,           \* search_results as returned by hybrid_search
    m_top,               \* top_scored: the ranked, truncated candidates
    m_stage,             \* outcome of each stage of match(): "none", "ok" or "fail"
    m_response,          \* the CandidateMatchResponse returned, or NoResponse
    m_exc,               \* the exception match() raised, or NoExc
    a_pc,                \* position of analyze()
    a_tasks,             \* the three gathered sub-calls: state and exception of each
    a_calls,             \* LLM create calls made by analyze(), by stage
    a_first,             \* the exception gather() propagates: the first one raised
    a_exc,               \* the exception analyze() raised, or NoExc
    a_data,              \* by stage: the JSON object the LLM answered with, or None
    a_results,           \* by stage: the value the sub-call returned, or None
    a_response,          \* the LastenheftAnalysisResponse returned, or NoResponse
    fn_call,             \* the last direct call of a scoring function: arguments and result
    app,                 \* phase of the application's lifespan: "created", "serving", "stopped"
    cache,               \* app.core.auth._cache: the "jwks" and "jwks_timestamp" dicts
    clock,               \* time.time(), in seconds
    jwks_call            \* the last get_jwks call: tenant, whether it fetched, and its outcome

vars == <<settings, chat_service, embedding_service, search_service,
          candidate_matcher, lastenheft_analyzer, index,
          sc_pc, sc_events, sc_calls, sc_deltas, sc_stage, sc_exc,
          request, llm_behaviour, m_pc, m_calls, m_results, m_top, m_stage,
          m_response, m_exc, a_pc, a_tasks, a_calls, a_first, a_exc,
          a_data, a_results, a_response, fn_call, app, cache, clock, jwks_call>>

auth_vars == <<cache, clock, jwks_call>>

svc_vars == <<chat_service, embedding_service, search_service,
              candidate_matcher, lastenheft_analyzer>>
sc_vars == <<sc_pc, sc_events, sc_calls, sc_deltas, sc_stage, sc_exc>>
env_vars == <<request, llm_behaviour>>
m_vars == <<m_pc, m_calls, m_results, m_top, m_stage, m_response, m_exc>>
a_vars == <<a_pc, a_tasks, a_calls, a_first, a_exc, a_data, a_results, a_response>>

----------------------------------------------------------------------------
(* Bounds *)

MaxChunks == 3          \* chunks delivered by one LLM stream
MaxChatDocs == 2        \* documents in the index of the chat specification
MaxSkills == 2          \* required skills in one match request
MaxMatchDocs == 2       \* documents in the index of the match specification
MaxRankDocs == 11       \* documents in the index of the ranking specification
MaxFnSkills == 3        \* required skills in a direct calculate_skill_match call
MaxYearsTenths == 200   \* years of experience up to 20.0, in tenths
MaxFnScore == 5         \* largest raw search score in a direct normalize call

----------------------------------------------------------------------------
(* Values *)

None == "<None>"        \* Python None where a str is expected
NoExc == [type |-> "none", msg |-> ""]

Exc(t, m) == [type |-> t, msg |-> m]

\* An exception raised with `raise ... from cause`.
ExcFrom(t, m, c) == [type |-> t, msg |-> m, cause |-> c]
NoMatchExc == ExcFrom("none", "", NoExc)

\* No CandidateMatchResponse has been returned.
NoResponse == [returned |-> FALSE]

\* Settings: TRUE = the setting is a non-empty string.
SettingsSet ==
    [OPENAI_ENDPOINT : BOOLEAN, OPENAI_API_KEY : BOOLEAN,
     AZURE_SEARCH_ENDPOINT : BOOLEAN, AZURE_SEARCH_KEY : BOOLEAN]

\* __init__ of the OpenAI-backed services: client None, initialized False.
NewOpenAIService == [initialized |-> FALSE, client |-> FALSE]
\* SearchService.__init__
NewSearchService == [initialized |-> FALSE]

----------------------------------------------------------------------------
(* Service lifecycle *)

\* initialize() of ChatService / EmbeddingService / CandidateMatcher /
\* LastenheftAnalyzer: no-op when initialized, no-op when credentials are
\* missing, otherwise client is built and initialized set.
OpenAIInitialize(svc, s) ==
    IF svc.initialized THEN svc
    ELSE IF ~s.OPENAI_ENDPOINT \/ ~s.OPENAI_API_KEY THEN svc
    ELSE [initialized |-> TRUE, client |-> TRUE]

\* Variant: close() resets the flag only.
OpenAIClose_KeepClient(svc) == [initialized |-> FALSE, client |-> svc.client]

\* close() of the OpenAI-backed services.
OpenAIClose(svc) == [initialized |-> FALSE, client |-> FALSE]

\* SearchService.initialize
SearchInitialize(svc, s) ==
    IF svc.initialized THEN svc
    ELSE IF ~s.AZURE_SEARCH_ENDPOINT \/ ~s.AZURE_SEARCH_KEY THEN svc
    ELSE [initialized |-> TRUE]

\* SearchService.close
SearchClose(svc) == [initialized |-> FALSE]

\* The guard `not self.initialized or not self.client`.
NotInitialized(svc) == ~svc.initialized \/ ~svc.client

ChatInitialize ==
    /\ chat_service' = OpenAIInitialize(chat_service, settings)
    /\ UNCHANGED <<settings, embedding_service, search_service, candidate_matcher,
                   lastenheft_analyzer, index, sc_vars, env_vars, fn_call, app, auth_vars, m_vars, a_vars>>

ChatClose ==
    /\ chat_service' = OpenAIClose(chat_service)
    /\ UNCHANGED <<settings, embedding_service, search_service, candidate_matcher,
                   lastenheft_analyzer, index, sc_vars, env_vars, fn_call, app, auth_vars, m_vars, a_vars>>

EmbeddingInitialize ==
    /\ embedding_service' = OpenAIInitialize(embedding_service, settings)
    /\ UNCHANGED <<settings, chat_service, search_service, candidate_matcher,
                   lastenheft_analyzer, index, sc_vars, env_vars, fn_call, app, auth_vars, m_vars, a_vars>>

EmbeddingClose ==
    /\ embedding_service' = OpenAIClose(embedding_service)
    /\ UNCHANGED <<settings, chat_service, search_service, candidate_matcher,
                   lastenheft_analyzer, index, sc_vars, env_vars, fn_call, app, auth_vars, m_vars, a_vars>>

SearchServiceInitialize ==
    /\ search_service' = SearchInitialize(search_service, settings)
    /\ UNCHANGED <<settings, chat_service, embedding_service, candidate_matcher,
                   lastenheft_analyzer, index, sc_vars, env_vars, fn_call, app, auth_vars, m_vars, a_vars>>

SearchServiceClose ==
    /\ search_service' = SearchClose(search_service)
    /\ UNCHANGED <<settings, chat_service, embedding_service, candidate_matcher,
                   lastenheft_analyzer, index, sc_vars, env_vars, fn_call, app, auth_vars, m_vars, a_vars>>

----------------------------------------------------------------------------
(* Search index and SearchService._process_results *)

\* Take the first n elements of a sequence (the service's `top` parameter).
Take(s, n) == SubSeq(s, 1, IF Len(s) < n THEN Len(s) ELSE n)

\* dict.get(key, default): the default applies only when the key is absent.
Get(r, key, default) == IF key \in DOMAIN r THEN r[key] ELSE default

\* One record of _process_results: the keys the code copies from a document
\* (id and content carry no behaviour here and are left out).  A field the
\* document lacks arrives as None; yearsOfExperience is not copied.
ProcessDoc(doc) ==
    [employee_name  |-> doc.employeeName,
     employee_alias |-> doc.employeeAlias,
     skills         |-> doc.skills,
     tools          |-> doc.tools,
     title          |-> doc.title,
     location       |-> doc.location,
     score          |-> doc.score]

ProcessResults(docs) == [i \in 1..Len(docs) |-> ProcessDoc(docs[i])]

\* Aliases are the document keys; position i of the index holds key e<i>.
AliasOf(i) == <<"e1", "e2", "e3", "e4", "e5", "e6", "e7", "e8", "e9", "e10",
                "e11", "e12", "e13", "e14", "e15", "e16">>[i]

\* Document shapes.  score is the raw @search.score as an integer.
DocKind(k) ==
    CASE k = "fit" ->      \* matches the required skills, low relevance
           [employeeName |-> "Ann", skills |-> <<"Python", "React">>, tools |-> <<"Docker">>,
            title |-> "Engineer", location |-> "Berlin", score |-> 1, yearsOfExperience |-> 7]
      [] k = "relevant" -> \* no skill overlap, high relevance
           [employeeName |-> "Bob", skills |-> <<"Java">>, tools |-> <<>>,
            title |-> "Engineer", location |-> "Berlin", score |-> 3, yearsOfExperience |-> 2]
      [] k = "nolocation" -> \* location missing in the index document
           [employeeName |-> "Cyd", skills |-> <<"python">>, tools |-> <<>>,
            title |-> "Engineer", location |-> None, score |-> 2, yearsOfExperience |-> 7]
      [] k = "bare" ->     \* no skills, no tools, score 0
           [employeeName |-> "Dee", skills |-> <<>>, tools |-> <<>>,
            title |-> "", location |-> "", score |-> 0, yearsOfExperience |-> 0]

MkDoc(k, i) ==
    [employeeName |-> DocKind(k).employeeName, employeeAlias |-> AliasOf(i),
     skills |-> DocKind(k).skills, tools |-> DocKind(k).tools,
     title |-> DocKind(k).title, location |-> DocKind(k).location,
     score |-> DocKind(k).score, yearsOfExperience |-> DocKind(k).yearsOfExperience]

\* All indexes of length lo..hi whose documents have shapes from kinds.
Indexes(kinds, lo, hi) ==
    UNION { { [i \in 1..n |-> MkDoc(f[i], i)] : f \in [1..n -> kinds] } : n \in lo..hi }

----------------------------------------------------------------------------
(* ChatService.stream_chat *)

Ev(e, c, n) == [event |-> e, content |-> c, count |-> n]
StartEv == Ev("start", "started", 0)
CompleteEv == Ev("complete", "complete", 0)
ErrorEv(msg) == Ev("error", msg, 0)
TokenEv(c) == Ev("token", c, 0)
SearchCompleteEv(n) == Ev("search_complete", "", n)

CHAT_TOP == 10

\* A streamed chunk: choices may be empty; delta.content may be None or "".
Chunks ==
    { [choices |-> FALSE, content |-> None],
      [choices |-> TRUE, content |-> None],
      [choices |-> TRUE, content |-> ""],
      [choices |-> TRUE, content |-> "Hi"],
      [choices |-> TRUE, content |-> " there"] }

\* Variant: a token is emitted for every delta whose content is not None.
HasContent_EmptyToken(chunk) == chunk.choices /\ chunk.content # None

\* `if chunk.choices and chunk.choices[0].delta.content`
HasContent(chunk) == chunk.choices /\ chunk.content # None /\ chunk.content # ""

NoStage == [embedding |-> "none", search |-> "none", llm |-> "none"]

\* Variant: the handler only logs; no event is yielded.
ChatFail_Silent(stage, msg) ==
    /\ sc_events' = sc_events
    /\ sc_stage' = [sc_stage EXCEPT ![stage] = "fail"]
    /\ sc_pc' = "at_error"

\* The `except Exception` handler: one error event, generator suspended on it.
ChatFail(stage, msg) ==
    /\ sc_events' = Append(sc_events, ErrorEv(msg))
    /\ sc_stage' = [sc_stage EXCEPT ![stage] = "fail"]
    /\ sc_pc' = "at_error"

\* First resumption: the not-initialized guard, then `yield start`.
StreamChatBegin ==
    /\ sc_pc = "idle"
    /\ IF NotInitialized(chat_service)
       THEN /\ sc_pc' = "raised"
            /\ sc_exc' = Exc("RuntimeError", "ChatService not initialized")
            /\ UNCHANGED sc_events
       ELSE /\ sc_pc' = "at_start"
            /\ sc_events' = Append(sc_events, StartEv)
            /\ UNCHANGED sc_exc
    /\ UNCHANGED <<a_vars, env_vars, fn_call, app, auth_vars, m_vars, settings, svc_vars, index, sc_calls, sc_deltas, sc_stage>>

\* Resumed after start: embedding_service.get_embedding(query) is invoked;
\* its own guard raises RuntimeError, otherwise the request is in flight.
StreamChatEmbed ==
    /\ sc_pc = "at_start"
    /\ sc_calls' = Append(sc_calls, "get_embedding")
    /\ IF NotInitialized(embedding_service)
       THEN /\ ChatFail("embedding", "EmbeddingService not initialized")
       ELSE /\ sc_pc' = "await_embedding"
            /\ UNCHANGED <<sc_events, sc_stage>>
    /\ UNCHANGED <<a_vars, env_vars, fn_call, app, auth_vars, m_vars, settings, svc_vars, index, sc_deltas, sc_exc>>

\* Variant: a failed embedding falls back to a lexical-only search.
StreamChatEmbeddingDone_Fallback ==
    /\ sc_pc = "await_embedding"
    /\ \E ok \in BOOLEAN :
         /\ sc_calls' = Append(sc_calls, "hybrid_search")
         /\ IF ~search_service.initialized
            THEN /\ sc_events' = Append(sc_events, ErrorEv("SearchService not initialized"))
                 /\ sc_stage' = [sc_stage EXCEPT !.embedding = IF ok THEN "ok" ELSE "fail",
                                                   !.search = "fail"]
                 /\ sc_pc' = "at_error"
            ELSE /\ sc_stage' = [sc_stage EXCEPT !.embedding = IF ok THEN "ok" ELSE "fail"]
                 /\ sc_pc' = "await_search"
                 /\ UNCHANGED sc_events
    /\ UNCHANGED <<a_vars, env_vars, fn_call, app, auth_vars, m_vars, settings, svc_vars, index, sc_deltas, sc_exc>>

\* The embedding request completes; on success hybrid_search is invoked.
StreamChatEmbeddingDone ==
    /\ sc_pc = "await_embedding"
    /\ \E ok \in BOOLEAN :
         IF ~ok
         THEN /\ ChatFail("embedding", "embedding request failed")
              /\ UNCHANGED sc_calls
         ELSE /\ sc_calls' = Append(sc_calls, "hybrid_search")
              /\ IF ~search_service.initialized
                 THEN /\ sc_events' = Append(sc_events, ErrorEv("SearchService not initialized"))
                      /\ sc_stage' = [sc_stage EXCEPT !.embedding = "ok", !.search = "fail"]
                      /\ sc_pc' = "at_error"
                 ELSE /\ sc_stage' = [sc_stage EXCEPT !.embedding = "ok"]
                      /\ sc_pc' = "await_search"
                      /\ UNCHANGED sc_events
    /\ UNCHANGED <<a_vars, env_vars, fn_call, app, auth_vars, m_vars, settings, svc_vars, index, sc_deltas, sc_exc>>

\* Variant: the search result is used without a search_complete event.
StreamChatSearchDone_NoEvent ==
    /\ sc_pc = "await_search"
    /\ \E ok \in BOOLEAN :
         IF ~ok
         THEN ChatFail("search", "Search failed: 503")
         ELSE /\ sc_stage' = [sc_stage EXCEPT !.search = "ok"]
              /\ sc_pc' = "at_search_complete"
              /\ UNCHANGED sc_events
    /\ UNCHANGED <<a_vars, env_vars, fn_call, app, auth_vars, m_vars, settings, svc_vars, index, sc_calls, sc_deltas, sc_exc>>

\* The search request completes: non-200 raises, 200 yields search_complete.
StreamChatSearchDone ==
    /\ sc_pc = "await_search"
    /\ \E ok \in BOOLEAN :
         IF ~ok
         THEN ChatFail("search", "Search failed: 503")
         ELSE /\ sc_events' = Append(sc_events,
                    SearchCompleteEv(Len(ProcessResults(Take(index, CHAT_TOP)))))
              /\ sc_stage' = [sc_stage EXCEPT !.search = "ok"]
              /\ sc_pc' = "at_search_complete"
    /\ UNCHANGED <<a_vars, env_vars, fn_call, app, auth_vars, m_vars, settings, svc_vars, index, sc_calls, sc_deltas, sc_exc>>

\* Variant: the create call is made outside the try block, so the attribute
\* error of a cleared client leaves the generator.
StreamChatCreate_Escapes ==
    /\ sc_pc = "at_search_complete"
    /\ IF ~chat_service.client
       THEN /\ sc_pc' = "raised"
            /\ sc_exc' = Exc("AttributeError", "'NoneType' object has no attribute 'chat'")
            /\ UNCHANGED <<sc_calls, sc_events, sc_stage>>
       ELSE /\ sc_calls' = Append(sc_calls, "chat.completions.create")
            /\ sc_pc' = "await_create"
            /\ UNCHANGED <<sc_events, sc_stage, sc_exc>>
    /\ UNCHANGED <<a_vars, env_vars, fn_call, app, auth_vars, m_vars, settings, svc_vars, index, sc_deltas>>

\* Resumed after search_complete: context assembly, then
\* self.client.chat.completions.create(stream=True); a client cleared by
\* close() makes the attribute access raise.
StreamChatCreate ==
    /\ sc_pc = "at_search_complete"
    /\ IF ~chat_service.client
       THEN /\ ChatFail("llm", "'NoneType' object has no attribute 'chat'")
            /\ UNCHANGED sc_calls
       ELSE /\ sc_calls' = Append(sc_calls, "chat.completions.create")
            /\ sc_pc' = "await_create"
            /\ UNCHANGED <<sc_events, sc_stage>>
    /\ UNCHANGED <<a_vars, env_vars, fn_call, app, auth_vars, m_vars, settings, svc_vars, index, sc_deltas, sc_exc>>

\* The create call returns the stream, or raises.
StreamChatCreateDone ==
    /\ sc_pc = "await_create"
    /\ \E ok \in BOOLEAN :
         IF ~ok
         THEN ChatFail("llm", "OpenAI rate limit")
         ELSE /\ sc_pc' = "streaming"
              /\ UNCHANGED <<sc_events, sc_stage>>
    /\ UNCHANGED <<a_vars, env_vars, fn_call, app, auth_vars, m_vars, settings, svc_vars, index, sc_calls, sc_deltas, sc_exc>>

\* `async for chunk in response`: a chunk arrives; a token is yielded for a
\* non-empty content delta, otherwise the loop awaits the next chunk.
StreamChatChunk ==
    /\ sc_pc = "streaming"
    /\ Len(sc_deltas) < MaxChunks
    /\ \E chunk \in Chunks :
         /\ sc_deltas' = Append(sc_deltas, chunk)
         /\ IF HasContent(chunk)
            THEN /\ sc_events' = Append(sc_events, TokenEv(chunk.content))
                 /\ sc_pc' = "at_token"
            ELSE UNCHANGED <<sc_events, sc_pc>>
    /\ UNCHANGED <<a_vars, env_vars, fn_call, app, auth_vars, m_vars, settings, svc_vars, index, sc_calls, sc_stage, sc_exc>>

\* Resumed after a token: back to awaiting the next chunk.
StreamChatResume ==
    /\ sc_pc = "at_token"
    /\ sc_pc' = "streaming"
    /\ UNCHANGED <<a_vars, env_vars, fn_call, app, auth_vars, m_vars, settings, svc_vars, index, sc_events, sc_calls, sc_deltas, sc_stage, sc_exc>>

\* Variant: the error is reported and the stream is still closed with complete
\* (as a `finally: yield complete` would do).
StreamChatStreamFail_ThenComplete ==
    /\ sc_pc = "streaming"
    /\ sc_events' = sc_events \o <<ErrorEv("stream interrupted"), CompleteEv>>
    /\ sc_stage' = [sc_stage EXCEPT !.llm = "fail"]
    /\ sc_pc' = "at_complete"
    /\ UNCHANGED <<a_vars, env_vars, fn_call, app, auth_vars, m_vars, settings, svc_vars, index, sc_calls, sc_deltas, sc_exc>>

\* The stream raises while the next chunk is awaited.
StreamChatStreamFail ==
    /\ sc_pc = "streaming"
    /\ ChatFail("llm", "stream interrupted")
    /\ UNCHANGED <<a_vars, env_vars, fn_call, app, auth_vars, m_vars, settings, svc_vars, index, sc_calls, sc_deltas, sc_exc>>

\* The stream is exhausted: `yield complete`.
StreamChatStreamEnd ==
    /\ sc_pc = "streaming"
    /\ sc_events' = Append(sc_events, CompleteEv)
    /\ sc_stage' = [sc_stage EXCEPT !.llm = "ok"]
    /\ sc_pc' = "at_complete"
    /\ UNCHANGED <<a_vars, env_vars, fn_call, app, auth_vars, m_vars, settings, svc_vars, index, sc_calls, sc_deltas, sc_exc>>

\* Resumed after complete or error: the generator returns.
StreamChatFinish ==
    /\ sc_pc \in {"at_complete", "at_error"}
    /\ sc_pc' = "done"
    /\ UNCHANGED <<a_vars, env_vars, fn_call, app, auth_vars, m_vars, settings, svc_vars, index, sc_events, sc_calls, sc_deltas, sc_stage, sc_exc>>

ChatSettings ==
    { s \in SettingsSet : s.OPENAI_ENDPOINT = s.OPENAI_API_KEY
                          /\ s.AZURE_SEARCH_ENDPOINT = s.AZURE_SEARCH_KEY }

InitServices ==
    /\ chat_service = NewOpenAIService
    /\ embedding_service = NewOpenAIService
    /\ search_service = NewSearchService
    /\ candidate_matcher = NewOpenAIService
    /\ lastenheft_analyzer = NewOpenAIService

InitChatIdle ==
    /\ sc_pc = "idle"
    /\ sc_events = <<>>
    /\ sc_calls = <<>>
    /\ sc_deltas = <<>>
    /\ sc_stage = NoStage
    /\ sc_exc = NoExc

InitMatchIdle ==
    /\ m_pc = "idle"
    /\ m_calls = <<>>
    /\ m_results = <<>>
    /\ m_top = <<>>
    /\ m_stage = NoStage
    /\ m_response = NoResponse
    /\ m_exc = NoMatchExc

AnalyzeStages == {"quality", "questions", "skills"}

\* An empty dict.
EmptyCache == [key \in {} |-> None]

\* get_jwks has not been called.
NoJwksCall == [tenant |-> None, fetched |-> FALSE, outcome |-> "none",
               returned |-> None, raised |-> "none"]

\* No scoring function has been called directly.
NoCall == [fn |-> "none"]

InitAnalyzeIdle ==
    /\ fn_call = NoCall
    /\ app = "created"
    /\ cache = [jwks |-> EmptyCache, jwks_timestamp |-> EmptyCache]
    /\ clock = 0
    /\ jwks_call = NoJwksCall
    /\ a_pc = "idle"
    /\ a_tasks = [st \in AnalyzeStages |-> [state |-> "none", exc |-> NoExc]]
    /\ a_calls = <<>>
    /\ a_first = NoExc
    /\ a_exc = NoExc
    /\ a_data = [st \in AnalyzeStages |-> None]
    /\ a_results = [st \in AnalyzeStages |-> None]
    /\ a_response = NoResponse

InitChat ==
    /\ settings \in ChatSettings
    /\ InitServices
    /\ index \in Indexes({"fit", "nolocation"}, 0, MaxChatDocs)
    /\ InitChatIdle
    /\ request = <<>>
    /\ llm_behaviour = "raise"
    /\ InitMatchIdle
    /\ InitAnalyzeIdle

NextChat ==
    \/ ChatInitialize
    \/ ChatClose
    \/ EmbeddingInitialize
    \/ EmbeddingClose
    \/ SearchServiceInitialize
    \/ SearchServiceClose
    \/ StreamChatBegin
    \/ StreamChatEmbed
    \/ StreamChatEmbeddingDone
    \/ StreamChatSearchDone
    \/ StreamChatCreate
    \/ StreamChatCreateDone
    \/ StreamChatChunk
    \/ StreamChatResume
    \/ StreamChatStreamFail
    \/ StreamChatStreamEnd
    \/ StreamChatFinish

SpecChat == InitChat /\ [][NextChat]_vars

----------------------------------------------------------------------------
(* Properties of stream_chat *)

EventTypes == [i \in 1..Len(sc_events) |-> sc_events[i].event]
HasEvent(t) == \E i \in 1..Len(sc_events) : sc_events[i].event = t
CountEvent(t) == Cardinality({ i \in 1..Len(sc_events) : sc_events[i].event = t })
AnyStageFailed == \E st \in DOMAIN sc_stage : sc_stage[st] = "fail"
AllStagesOk == \A st \in DOMAIN sc_stage : sc_stage[st] = "ok"

\* The deltas with a non-empty string content, in the order received.
RECURSIVE NonEmptyContents(_)
NonEmptyContents(d) ==
    IF d = <<>> THEN <<>>
    ELSE LET c == Head(d)
         IN  IF c.choices /\ c.content \notin {None, ""}
             THEN <<c.content>> \o NonEmptyContents(Tail(d))
             ELSE NonEmptyContents(Tail(d))

TokenEvents(cs) == [i \in 1..Len(cs) |-> TokenEv(cs[i])]

\* C1: when embedding, search and the whole LLM stream succeeded, the events
\* are exactly start, search_complete, one token per non-empty content delta
\* in the order received, then complete; this still holds in every later
\* state, so nothing is emitted after complete.
C1_SuccessSequence ==
    (AllStagesOk \/ HasEvent("complete")) =>
        sc_events = <<StartEv, SearchCompleteEv(Len(Take(index, CHAT_TOP)))>>
                    \o TokenEvents(NonEmptyContents(sc_deltas))
                    \o <<CompleteEv>>

\* C1 witness: a finished successful stream that skipped an empty delta and
\* emitted two tokens.
C1_Witness ==
    /\ sc_pc = "done"
    /\ AllStagesOk
    /\ Len(sc_deltas) = 3
    /\ CountEvent("token") = 2

\* C2: no complete follows an error; complete appears only when all three
\* stages succeeded; a failed stage leaves exactly one error event, and it is
\* the last event.
C2_CompleteOnlyOnSuccess ==
    /\ \A i, j \in 1..Len(sc_events) :
          (i < j /\ sc_events[i].event = "error") => sc_events[j].event # "complete"
    /\ HasEvent("complete") => AllStagesOk
    /\ AnyStageFailed =>
          /\ CountEvent("error") = 1
          /\ sc_events[Len(sc_events)].event = "error"

\* C2 witness: the LLM stream failed after a token had been emitted.
C2_Witness ==
    /\ sc_stage.llm = "fail"
    /\ HasEvent("token")
    /\ sc_pc = "done"

\* C3: when the embedding call fails the events are exactly start then error,
\* the error carries the failure message, and neither the search nor the LLM
\* collaborator is called.
C3_EmbeddingFailure ==
    sc_stage.embedding = "fail" =>
        /\ Len(sc_events) = 2
        /\ sc_events[1] = StartEv
        /\ sc_events[2].event = "error"
        /\ sc_events[2].content \in {"embedding request failed",
                                     "EmbeddingService not initialized"}
        /\ \A i \in 1..Len(sc_calls) : sc_calls[i] = "get_embedding"

\* C3 witness: the embedding request failed in flight and the stream ended.
C3_Witness ==
    /\ sc_stage.embedding = "fail"
    /\ sc_events = <<StartEv, ErrorEv("embedding request failed")>>
    /\ sc_pc = "done"

\* A stream_chat invocation has failed: it raised, or one of its stages failed.
ChatFailed == sc_pc = "raised" \/ AnyStageFailed

\* C4 as stated: every failed invocation has emitted an error event.
C4_ErrorEventOnEveryFailure == ChatFailed => HasEvent("error")

\* C4 amended: an invocation that passed the not-initialized guard and then
\* failed has emitted an error event, and a stream that ended without
\* complete has one; an invocation on an uninitialized service raises
\* RuntimeError and emits no event at all.
C4_ErrorEventAfterStart ==
    /\ AnyStageFailed => HasEvent("error")
    /\ (sc_pc = "done" /\ ~HasEvent("complete")) => HasEvent("error")
    /\ sc_pc = "raised" =>
          /\ sc_events = <<>>
          /\ sc_exc = Exc("RuntimeError", "ChatService not initialized")

\* C4 witness: the search stage failed and the stream ended with its error.
C4_Witness ==
    /\ sc_stage.search = "fail"
    /\ sc_pc = "done"
    /\ HasEvent("error")

----------------------------------------------------------------------------
(* Scoring functions of candidate_matcher.py.  A score is an exact rational   *)
(* [n, d] with d > 0; round(x, 4) gives an integer number of 1e-4 units.     *)

WEIGHT_SKILL_MATCH == 40     \* 0.40, in hundredths
WEIGHT_EXPERIENCE == 25      \* 0.25
WEIGHT_SEMANTIC == 20        \* 0.20
WEIGHT_AVAILABILITY == 15    \* 0.15
DEFAULT_AVAILABILITY == 80   \* 0.8, in hundredths
MAX_CANDIDATES == 10

RECURSIVE GCD(_, _)
GCD(a, b) == IF b = 0 THEN a ELSE GCD(b, a % b)

\* The rational n/d in lowest terms (n >= 0, d > 0).
Q(n, d) == LET g == GCD(n, d) IN [n |-> n \div g, d |-> d \div g]
QAdd(a, b) == Q(a.n * b.d + b.n * a.d, a.d * b.d)
\* (k / 100) * a
QPercent(k, a) == LET g == GCD(a.n, 100) IN Q(k * (a.n \div g), (100 \div g) * a.d)

\* round(x, 4) of a non-negative rational, ties to even, in units of 1e-4.
Round4(q) ==
    LET g  == GCD(10000, q.d)
        x  == (10000 \div g) * q.n
        d  == q.d \div g
        fl == x \div d
        r  == x - fl * d
    IN  IF 2 * r > d \/ (2 * r = d /\ fl % 2 = 1) THEN fl + 1 ELSE fl

\* str.lower() on the vocabulary of the model.
Lower(s) ==
    CASE s = "Python" -> "python"
      [] s = "React" -> "react"
      [] s = "Docker" -> "docker"
      [] s = "Java" -> "java"
      [] s = "Azure" -> "azure"
      [] OTHER -> s

RECURSIVE SumWeights(_, _)
\* Sum of 2.0 (mandatory) / 1.0 (optional) over the skills that satisfy keep.
SumWeights(skills, keep) ==
    IF skills = <<>> THEN 0
    ELSE LET sk == Head(skills)
             w  == IF sk.mandatory THEN 2 ELSE 1
         IN  (IF sk.name \in keep THEN w ELSE 0) + SumWeights(Tail(skills), keep)

\* Variant: every required skill weighs 1.0, mandatory or not.
calculate_skill_match_Unweighted(required_skills, employee_skills, employee_tools) ==
    LET employee_set == { Lower(employee_skills[i]) : i \in 1..Len(employee_skills) }
                        \cup { Lower(employee_tools[i]) : i \in 1..Len(employee_tools) }
        hits == { i \in 1..Len(required_skills) : Lower(required_skills[i].name) \in employee_set }
    IN  IF required_skills = <<>> \/ employee_set = {} THEN Q(0, 1)
        ELSE Q(Cardinality(hits), Len(required_skills))

calculate_skill_match(required_skills, employee_skills, employee_tools) ==
    IF required_skills = <<>> THEN Q(0, 1)
    ELSE LET employee_set == { Lower(employee_skills[i]) : i \in 1..Len(employee_skills) }
                             \cup { Lower(employee_tools[i]) : i \in 1..Len(employee_tools) }
             all_names == { required_skills[i].name : i \in 1..Len(required_skills) }
             matched_names == { nm \in all_names : Lower(nm) \in employee_set }
             weighted_total == SumWeights(required_skills, all_names)
             weighted_matched == SumWeights(required_skills, matched_names)
         IN  IF employee_set = {} THEN Q(0, 1)
             ELSE IF weighted_total = 0 THEN Q(0, 1)
             ELSE Q(weighted_matched, weighted_total)

\* Variant: the expert range starts at 10 years.
LevelRange_ExpertFrom10(level) ==
    CASE level = "junior" -> <<0, 2>>
      [] level = "mid" -> <<2, 5>>
      [] level = "senior" -> <<5, 10>>
      [] level = "expert" -> <<10, 20>>
      [] OTHER -> <<2, 5>>

\* level_ranges.get(required_level, (2.0, 5.0))
LevelRange(level) ==
    CASE level = "junior" -> <<0, 2>>
      [] level = "mid" -> <<2, 5>>
      [] level = "senior" -> <<5, 10>>
      [] level = "expert" -> <<8, 20>>
      [] OTHER -> <<2, 5>>

Abs(x) == IF x < 0 THEN -x ELSE x

\* Variant: max(0.0, ...) dropped.
calculate_experience_score_NoFloor(required_level, years10) ==
    IF required_level = None THEN Q(7, 10)
    ELSE LET ideal_min  == LevelRange(required_level)[1]
             ideal_max  == LevelRange(required_level)[2]
             mid20      == 10 * (ideal_min + ideal_max)
             distance20 == Abs(2 * years10 - mid20)
             spread20   == 10 * (ideal_max - ideal_min) + 40
         IN  Q(spread20 - distance20, spread20)

\* years10 is the number of years in tenths (the indexer stores years with
\* one decimal); midpoint, distance and spread are kept in twentieths so that
\* they stay whole numbers.
calculate_experience_score(required_level, years10) ==
    IF required_level = None THEN Q(7, 10)
    ELSE LET ideal_min  == LevelRange(required_level)[1]
             ideal_max  == LevelRange(required_level)[2]
             mid20      == 10 * (ideal_min + ideal_max)
             distance20 == Abs(2 * years10 - mid20)
             spread20   == 10 * (ideal_max - ideal_min) + 40
         IN  IF distance20 >= spread20 THEN Q(0, 1)
             ELSE Q(spread20 - distance20, spread20)

\* Variant: min(1.0, ...) dropped.
normalize_search_score_NoUpperClamp(score, max_score) ==
    IF max_score <= 0 THEN Q(0, 1)
    ELSE IF score <= 0 THEN Q(0, 1)
    ELSE Q(score, max_score)

\* max(0.0, min(1.0, score / max_score)), 0.0 when max_score <= 0
normalize_search_score(score, max_score) ==
    IF max_score <= 0 THEN Q(0, 1)
    ELSE IF score <= 0 THEN Q(0, 1)
    ELSE IF score >= max_score THEN Q(1, 1)
    ELSE Q(score, max_score)

\* Variant: the first skill with a level, mandatory or not.
PrimaryLevel_FirstWithLevel(required_skills) ==
    LET withLevel == { i \in 1..Len(required_skills) : required_skills[i].level # None }
        First(S) == CHOOSE i \in S : \A j \in S : i <= j
    IN  IF withLevel # {} THEN required_skills[First(withLevel)].level
        ELSE None

\* next((s.level for s in skills if s.mandatory and s.level),
\*      next((s.level for s in skills if s.level), None))
PrimaryLevel(required_skills) ==
    LET withLevel == { i \in 1..Len(required_skills) : required_skills[i].level # None }
        mandLevel == { i \in withLevel : required_skills[i].mandatory }
        First(S) == CHOOSE i \in S : \A j \in S : i <= j
    IN  IF mandLevel # {} THEN required_skills[First(mandLevel)].level
        ELSE IF withLevel # {} THEN required_skills[First(withLevel)].level
        ELSE None

\* _score_candidate: (round(total, 4), ScoreBreakdown), all in 1e-4 units.
ScoreCandidate(result, required_skills, max_search_score) ==
    LET skill_score == calculate_skill_match(required_skills,
                           Get(result, "skills", <<>>), Get(result, "tools", <<>>))
        years == 10 * Get(result, "years_of_experience", 0)
        experience_score == calculate_experience_score(PrimaryLevel(required_skills), years)
        semantic_score == normalize_search_score(Get(result, "score", 0), max_search_score)
        availability_score == Q(DEFAULT_AVAILABILITY, 100)
        total == QAdd(QAdd(QPercent(WEIGHT_SKILL_MATCH, skill_score),
                           QPercent(WEIGHT_EXPERIENCE, experience_score)),
                      QAdd(QPercent(WEIGHT_SEMANTIC, semantic_score),
                           QPercent(WEIGHT_AVAILABILITY, availability_score)))
    IN  [total |-> Round4(total),
         breakdown |-> [skill_match |-> Round4(skill_score),
                        experience |-> Round4(experience_score),
                        semantic_similarity |-> Round4(semantic_score),
                        availability |-> Round4(availability_score)],
         result |-> result]

\* max(r.get("score", 0) for r in search_results) or 1.0
MaxSearchScore(results) ==
    LET m == CHOOSE x \in { Get(results[i], "score", 0) : i \in 1..Len(results) } :
                 \A i \in 1..Len(results) : Get(results[i], "score", 0) <= x
    IN  IF m = 0 THEN 1 ELSE m

\* Variant: ascending order (reverse=True dropped).
SortsBefore_Ascending(a, i, b, j) == a.total < b.total \/ (a.total = b.total /\ i < j)

\* list.sort(key=total, reverse=True): element a (at position i) ends up
\* before element b (at position j) when its total is larger, or equal with
\* i < j (the sort is stable, also with reverse=True).
SortsBefore(a, i, b, j) == a.total > b.total \/ (a.total = b.total /\ i < j)

\* The number of elements that sort before element i, plus one.
RankOf(scored) ==
    [i \in 1..Len(scored) |->
        1 + Cardinality({ j \in 1..Len(scored) :
                            j # i /\ SortsBefore(scored[j], j, scored[i], i) })]

\* The sorted list: the element of rank p lands at position p.
SortScored(scored) ==
    CHOOSE out \in { [p \in 1..Len(scored) |-> scored[CHOOSE i \in 1..Len(scored) : rank[i] = p]] :
                     rank \in { SubSeq(RankOf(scored), 1, Len(scored)) } } : TRUE

\* Variant: the slice keeps the last MAX_CANDIDATES elements.
Truncate_Last(scored) ==
    SubSeq(scored, IF Len(scored) > MAX_CANDIDATES THEN Len(scored) - MAX_CANDIDATES + 1 ELSE 1,
           Len(scored))

\* scored[:MAX_CANDIDATES]
Truncate(scored) == Take(scored, MAX_CANDIDATES)

\* Variant: each result is normalised against its own raw score.
ScoreAll_OwnMaximum(results, required_skills) ==
    SubSeq([i \in 1..Len(results) |->
               ScoreCandidate(results[i], required_skills,
                              MaxSearchScore(<<results[i]>>))],
           1, Len(results))

\* Lines 253-258: every result is scored against the one batch maximum.
ScoreAll(results, required_skills) ==
    CHOOSE scored \in
        { SubSeq([i \in 1..Len(results) |->
                     ScoreCandidate(results[i], required_skills, max_search_score)],
                 1, Len(results)) :
          max_search_score \in { MaxSearchScore(results) } } : TRUE

\* Lines 253-261: score, sort, truncate.
TopScored(results, required_skills) ==
    CHOOSE top \in { Truncate(SortScored(scored)) :
                     scored \in { ScoreAll(results, required_skills) } } : TRUE

----------------------------------------------------------------------------
(* CandidateMatcher.match *)

SEARCH_TOP == 20      \* top=MAX_CANDIDATES * 2

\* " ".join(names)
RECURSIVE JoinSpace(_)
JoinSpace(names) ==
    IF names = <<>> THEN ""
    ELSE IF Len(names) = 1 THEN names[1]
    ELSE names[1] \o " " \o JoinSpace(Tail(names))

RECURSIVE MandatoryNames(_)
MandatoryNames(skills) ==
    IF skills = <<>> THEN <<>>
    ELSE (IF Head(skills).mandatory THEN <<Head(skills).name>> ELSE <<>>)
         \o MandatoryNames(Tail(skills))

\* Variant: the names in reverse order.
AllNames_Reversed(skills) == [i \in 1..Len(skills) |-> skills[Len(skills) + 1 - i].name]

\* [s.name for s in skills]
AllNames(skills) == [i \in 1..Len(skills) |-> skills[i].name]

\* Variant: the names used for the query are also the names reported.
BuildSearchQuery_QueryNames(skills) ==
    LET mandatory == MandatoryNames(skills)
        query_skills == IF mandatory # <<>> THEN mandatory ELSE AllNames(skills)
    IN  [query_text |-> JoinSpace(query_skills), all_names |-> query_skills]

\* _build_search_query: (query_text, all_names)
BuildSearchQuery(skills) ==
    LET mandatory == MandatoryNames(skills)
        query_skills == IF mandatory # <<>> THEN mandatory ELSE AllNames(skills)
    IN  [query_text |-> JoinSpace(query_skills), all_names |-> AllNames(skills)]

Aliases(candidates) == [i \in 1..Len(candidates) |-> candidates[i].result.employee_alias]

\* What the explanation LLM call does, by behaviour, for the candidates listed
\* in the prompt.  kind "object" is a JSON object with an `explanations` list.
LLMAnswer(behaviour, aliases) ==
    LET text(a) == "fits: " \o a
        all == [i \in 1..Len(aliases) |-> [employee_alias |-> aliases[i], explanation |-> text(aliases[i])]]
    IN  CASE behaviour = "all" -> [kind |-> "object", items |-> all]
          [] behaviour = "first_only" -> [kind |-> "object", items |-> Take(all, 1)]
          [] behaviour = "null_text" ->
                [kind |-> "object",
                 items |-> [i \in 1..Len(aliases) |->
                              [employee_alias |-> aliases[i],
                               explanation |-> IF i = 1 THEN None ELSE text(aliases[i])]]]
          [] behaviour = "missing_field" ->
                [kind |-> "object",
                 items |-> [i \in 1..Len(aliases) |-> [employee_alias |-> aliases[i]]]]
          [] OTHER -> [kind |-> behaviour, items |-> <<>>]

LLMBehaviours ==
    {"raise", "empty", "nonjson", "array", "no_key",
     "all", "first_only", "null_text", "missing_field"}

\* The dict comprehension of line 217: a later item overrides an earlier one.
ExplanationDict(items) ==
    LET keys == { items[i].employee_alias : i \in 1..Len(items) }
        last(a) == CHOOSE i \in 1..Len(items) :
                      /\ items[i].employee_alias = a
                      /\ \A j \in 1..Len(items) : items[j].employee_alias = a => j <= i
    IN  [a \in keys |-> items[last(a)].explanation]

EmptyDict == [a \in {} |-> ""]

\* Lines 205-220 after the create call: every exception yields {}.
\*   raise          the call raised                          -> except: {}
\*   empty          content is None or ""                    -> {}
\*   nonjson        json.loads raises                        -> except: {}
\*   array          data is a list, data.get raises          -> except: {}
\*   no_key         data has no `explanations`               -> {}
\*   object         item lacking a key raises KeyError       -> except: {}
ParseExplanations(answer) ==
    IF answer.kind # "object" THEN EmptyDict
    ELSE IF \E i \in 1..Len(answer.items) :
               ~({"employee_alias", "explanation"} \subseteq DOMAIN answer.items[i])
         THEN EmptyDict
    ELSE ExplanationDict(answer.items)

\* Variant: a placeholder text instead of the default.
DictGet_Placeholder(d, key, default) == IF key \in DOMAIN d THEN d[key] ELSE "n/a"

\* explanations.get(alias, "")
DictGet(d, key, default) == IF key \in DOMAIN d THEN d[key] ELSE default

\* The CandidateMatch built at lines 268-279 from one scored candidate.
BuildMatch(c, explanations) ==
    LET alias == Get(c.result, "employee_alias", "")
    IN  [employee_name |-> Get(c.result, "employee_name", ""),
         employee_alias |-> alias,
         title |-> Get(c.result, "title", ""),
         location |-> Get(c.result, "location", ""),
         skills |-> Get(c.result, "skills", <<>>),
         total_score |-> c.total,
         breakdown |-> c.breakdown,
         explanation |-> DictGet(explanations, alias, "")]

InUnit(x) == 0 <= x /\ x <= 10000

\* Variant: a model that accepts None for its str fields.
ValidCandidateMatch_Lenient(m) ==
    /\ InUnit(m.total_score)
    /\ \A f \in DOMAIN m.breakdown : InUnit(m.breakdown[f])

\* pydantic validation of CandidateMatch: str fields reject None, scores are
\* within [0, 1].
ValidCandidateMatch(m) ==
    /\ m.employee_name # None
    /\ m.employee_alias # None
    /\ m.title # None
    /\ m.location # None
    /\ m.explanation # None
    /\ InUnit(m.total_score)
    /\ \A f \in DOMAIN m.breakdown : InUnit(m.breakdown[f])

\* Lines 266-286: build the response; a CandidateMatch that fails validation
\* raises pydantic's ValidationError out of match().
Assemble(results, top_scored, explanations, stage) ==
    LET matches == [i \in 1..Len(top_scored) |-> BuildMatch(top_scored[i], explanations)]
    IN  /\ m_stage' = stage
        /\ IF \A i \in 1..Len(matches) : ValidCandidateMatch(matches[i])
           THEN /\ m_pc' = "returned"
                /\ m_response' = [returned |-> TRUE,
                                  matches |-> matches,
                                  total_candidates_searched |-> Len(results),
                                  query_skills |-> BuildSearchQuery(request).all_names]
                /\ UNCHANGED m_exc
           ELSE /\ m_pc' = "raised"
                /\ m_exc' = ExcFrom("ValidationError", "CandidateMatch: Input should be a valid string", NoExc)
                /\ UNCHANGED m_response

\* Variant: the domain error is raised without `from e` and without the
\* underlying message.
MatchRaise_NoCause(stage, cause) ==
    /\ m_pc' = "raised"
    /\ m_exc' = ExcFrom("CandidateMatcherError", stage \o " failed", NoExc)
    /\ UNCHANGED m_response

MatchRaise(stage, cause) ==
    /\ m_pc' = "raised"
    /\ m_exc' = ExcFrom("CandidateMatcherError", stage \o " failed: " \o cause.msg, cause)
    /\ UNCHANGED m_response

\* match() up to its first await: the not-initialized guard, the query, and
\* the invocation of embedding_service.get_embedding(query_text).
MatchBegin ==
    /\ m_pc = "idle"
    /\ IF NotInitialized(candidate_matcher)
       THEN /\ m_pc' = "raised"
            /\ m_exc' = ExcFrom("CandidateMatcherError", "CandidateMatcher not initialized", NoExc)
            /\ UNCHANGED <<m_calls, m_stage, m_response>>
       ELSE /\ m_calls' = Append(m_calls, [fn |-> "get_embedding",
                                           text |-> BuildSearchQuery(request).query_text])
            /\ IF NotInitialized(embedding_service)
               THEN /\ MatchRaise("Embedding", Exc("RuntimeError", "EmbeddingService not initialized"))
                    /\ m_stage' = [m_stage EXCEPT !.embedding = "fail"]
               ELSE /\ m_pc' = "await_embedding"
                    /\ UNCHANGED <<m_stage, m_response, m_exc>>
    /\ UNCHANGED <<a_vars, settings, svc_vars, index, sc_vars, env_vars, fn_call, app, auth_vars, m_results, m_top>>

\* The embedding request completes; on success hybrid_search is invoked.
MatchEmbeddingDone ==
    /\ m_pc = "await_embedding"
    /\ \E ok \in BOOLEAN :
         IF ~ok
         THEN /\ MatchRaise("Embedding", Exc("APIError", "embedding request failed"))
              /\ m_stage' = [m_stage EXCEPT !.embedding = "fail"]
              /\ UNCHANGED m_calls
         ELSE /\ m_calls' = Append(m_calls, [fn |-> "hybrid_search",
                                             text |-> BuildSearchQuery(request).query_text,
                                             top |-> SEARCH_TOP])
              /\ IF ~search_service.initialized
                 THEN /\ MatchRaise("Search", Exc("RuntimeError", "SearchService not initialized"))
                      /\ m_stage' = [m_stage EXCEPT !.embedding = "ok", !.search = "fail"]
                 ELSE /\ m_pc' = "await_search"
                      /\ m_stage' = [m_stage EXCEPT !.embedding = "ok"]
                      /\ UNCHANGED <<m_response, m_exc>>
    /\ UNCHANGED <<a_vars, settings, svc_vars, index, sc_vars, env_vars, fn_call, app, auth_vars, m_results, m_top>>

\* The search request completes.  On success: the empty short-circuit, or
\* scoring, ranking and the start of _generate_explanations, which returns {}
\* at once when the client is unset and otherwise invokes the LLM.
MatchSearchDone ==
    /\ m_pc = "await_search"
    /\ \E ok \in BOOLEAN :
         IF ~ok
         THEN /\ MatchRaise("Search", Exc("RuntimeError", "Search failed: 503"))
              /\ m_stage' = [m_stage EXCEPT !.search = "fail"]
              /\ UNCHANGED <<m_calls, m_results, m_top>>
         ELSE \E search_results \in { ProcessResults(Take(index, SEARCH_TOP)) } :
                /\ m_results' = search_results
                /\ IF search_results = <<>>
                   THEN /\ m_pc' = "returned"
                        /\ m_stage' = [m_stage EXCEPT !.search = "ok"]
                        /\ m_response' = [returned |-> TRUE,
                                          matches |-> <<>>,
                                          total_candidates_searched |-> 0,
                                          query_skills |-> BuildSearchQuery(request).all_names]
                        /\ UNCHANGED <<m_calls, m_top, m_exc>>
                   ELSE \E top_scored \in { TopScored(search_results, request) } :
                          /\ m_top' = top_scored
                          /\ IF ~candidate_matcher.client
                             THEN /\ Assemble(search_results, top_scored, EmptyDict,
                                        [m_stage EXCEPT !.search = "ok", !.llm = "skipped"])
                                  /\ UNCHANGED m_calls
                             ELSE /\ m_calls' = Append(m_calls,
                                        [fn |-> "chat.completions.create",
                                         aliases |-> Aliases(top_scored)])
                                  /\ m_stage' = [m_stage EXCEPT !.search = "ok"]
                                  /\ m_pc' = "await_explain"
                                  /\ UNCHANGED <<m_response, m_exc>>
    /\ UNCHANGED <<a_vars, settings, svc_vars, index, sc_vars, env_vars, fn_call, app, auth_vars>>

\* The explanation call completes (or raises); the response is assembled.
MatchExplainDone ==
    /\ m_pc = "await_explain"
    /\ LET answer == LLMAnswer(llm_behaviour, Aliases(m_top))
       IN  Assemble(m_results, m_top, ParseExplanations(answer),
                    [m_stage EXCEPT !.llm = IF answer.kind = "raise" THEN "fail" ELSE "ok"])
    /\ UNCHANGED <<a_vars, settings, svc_vars, index, sc_vars, env_vars, fn_call, app, auth_vars, m_calls, m_results, m_top>>

CandidateMatcherInitialize ==
    /\ candidate_matcher' = OpenAIInitialize(candidate_matcher, settings)
    /\ UNCHANGED <<settings, chat_service, embedding_service, search_service,
                   lastenheft_analyzer, index, sc_vars, env_vars, fn_call, app, auth_vars, m_vars, a_vars>>

CandidateMatcherClose ==
    /\ candidate_matcher' = OpenAIClose(candidate_matcher)
    /\ UNCHANGED <<settings, chat_service, embedding_service, search_service,
                   lastenheft_analyzer, index, sc_vars, env_vars, fn_call, app, auth_vars, m_vars, a_vars>>

\* Required skills (category plays no part in matching and is left out).
SkillPool ==
    { [name |-> "Python", mandatory |-> TRUE, level |-> "senior"],
      [name |-> "React", mandatory |-> FALSE, level |-> "junior"],
      [name |-> "Azure", mandatory |-> FALSE, level |-> None] }

SkillLists(maxLen) == UNION { [1..n -> SkillPool] : n \in 0..maxLen }

AllCredentials ==
    [OPENAI_ENDPOINT |-> TRUE, OPENAI_API_KEY |-> TRUE,
     AZURE_SEARCH_ENDPOINT |-> TRUE, AZURE_SEARCH_KEY |-> TRUE]

InitMatch ==
    /\ settings = AllCredentials
    /\ InitServices
    /\ index \in Indexes({"fit", "nolocation", "bare"}, 0, MaxMatchDocs)
    /\ request \in SkillLists(MaxSkills)
    /\ llm_behaviour \in LLMBehaviours
    /\ InitChatIdle
    /\ InitMatchIdle
    /\ InitAnalyzeIdle

NextMatch ==
    \/ CandidateMatcherInitialize
    \/ CandidateMatcherClose
    \/ EmbeddingInitialize
    \/ EmbeddingClose
    \/ SearchServiceInitialize
    \/ SearchServiceClose
    \/ MatchBegin
    \/ MatchEmbeddingDone
    \/ MatchSearchDone
    \/ MatchExplainDone

SpecMatch == InitMatch /\ [][NextMatch]_vars

\* The ranking specification: the services are up, the index is long enough
\* for truncation, the request is fixed.
RankRequests ==
    { <<[name |-> "Python", mandatory |-> TRUE, level |-> "senior"],
        [name |-> "React", mandatory |-> FALSE, level |-> "junior"]>>,
      <<[name |-> "Azure", mandatory |-> FALSE, level |-> None]>>,
      <<[name |-> "Python", mandatory |-> TRUE, level |-> "junior"],
        [name |-> "Azure", mandatory |-> FALSE, level |-> None]>> }

InitRank ==
    /\ settings = AllCredentials
    /\ chat_service = NewOpenAIService
    /\ lastenheft_analyzer = NewOpenAIService
    /\ embedding_service = OpenAIInitialize(NewOpenAIService, AllCredentials)
    /\ search_service = SearchInitialize(NewSearchService, AllCredentials)
    /\ candidate_matcher = OpenAIInitialize(NewOpenAIService, AllCredentials)
    /\ index \in Indexes({"fit", "relevant"}, 1, MaxRankDocs)
    /\ request \in RankRequests
    /\ llm_behaviour \in {"all", "first_only", "raise"}
    /\ InitChatIdle
    /\ InitMatchIdle
    /\ InitAnalyzeIdle

NextRank ==
    \/ MatchBegin
    \/ MatchEmbeddingDone
    \/ MatchSearchDone
    \/ MatchExplainDone

SpecRank == InitRank /\ [][NextRank]_vars

----------------------------------------------------------------------------
(* LastenheftAnalyzer.analyze *)

\* asyncio.gather wraps the three coroutines in tasks in argument order.
StageOrder == <<"quality", "questions", "skills">>

StageIndex(st) == CHOOSE i \in 1..Len(StageOrder) : StageOrder[i] = st

AnalyzerInitialize ==
    /\ lastenheft_analyzer' = OpenAIInitialize(lastenheft_analyzer, settings)
    /\ UNCHANGED <<settings, chat_service, embedding_service, search_service,
                   candidate_matcher, index, sc_vars, env_vars, fn_call, app, auth_vars, m_vars, a_vars>>

AnalyzerClose ==
    /\ lastenheft_analyzer' = OpenAIClose(lastenheft_analyzer)
    /\ UNCHANGED <<settings, chat_service, embedding_service, search_service,
                   candidate_matcher, index, sc_vars, env_vars, fn_call, app, auth_vars, m_vars, a_vars>>

\* Variant: analyze() leaves the check to _call_llm.
AnalyzeBegin_NoGuard ==
    /\ a_pc = "idle"
    /\ a_pc' = "gathering"
    /\ a_tasks' = [st \in AnalyzeStages |-> [state |-> "pending", exc |-> NoExc]]
    /\ UNCHANGED a_exc
    /\ UNCHANGED <<settings, svc_vars, index, sc_vars, env_vars, fn_call, app, auth_vars, m_vars, a_calls, a_first,
                   a_data, a_results, a_response>>

\* analyze() up to `await asyncio.gather(...)`: the guard, then the three
\* coroutines are handed to gather, which schedules one task for each.
AnalyzeBegin ==
    /\ a_pc = "idle"
    /\ IF NotInitialized(lastenheft_analyzer)
       THEN /\ a_pc' = "raised"
            /\ a_exc' = Exc("LastenheftAnalyzerError", "LastenheftAnalyzer not initialized")
            /\ UNCHANGED a_tasks
       ELSE /\ a_pc' = "gathering"
            /\ a_tasks' = [st \in AnalyzeStages |-> [state |-> "pending", exc |-> NoExc]]
            /\ UNCHANGED a_exc
    /\ UNCHANGED <<settings, svc_vars, index, sc_vars, env_vars, fn_call, app, auth_vars, m_vars, a_calls, a_first,
                   a_data, a_results, a_response>>

\* A task completes with an exception: gather propagates the first one.
TaskFail(st, e) ==
    /\ a_tasks' = [a_tasks EXCEPT ![st] = [state |-> "failed", exc |-> e]]
    /\ a_first' = IF a_first = NoExc THEN e ELSE a_first

\* A task takes its first step, in scheduling order: _call_llm checks the
\* guard again and invokes chat.completions.create.
AnalyzeTaskStart ==
    /\ \E st \in AnalyzeStages :
         /\ a_tasks[st].state = "pending"
         /\ \A o \in AnalyzeStages : StageIndex(o) < StageIndex(st) => a_tasks[o].state # "pending"
         /\ IF NotInitialized(lastenheft_analyzer)
            THEN /\ TaskFail(st, Exc("LastenheftAnalyzerError", "LastenheftAnalyzer not initialized"))
                 /\ UNCHANGED a_calls
            ELSE /\ a_tasks' = [a_tasks EXCEPT ![st].state = "awaiting"]
                 /\ a_calls' = Append(a_calls, st)
                 /\ UNCHANGED a_first
    /\ UNCHANGED <<settings, svc_vars, index, sc_vars, env_vars, fn_call, app, auth_vars, m_vars, a_pc, a_exc,
                   a_data, a_results, a_response>>

\* What chat.completions.create does for one sub-call: it raises, or answers
\* with no content, with text that is not JSON, or with a JSON object.
LLMOutcomes == {"transport", "empty", "nonjson", "json"}

\* The LastenheftAnalyzerError _call_llm raises, by what the LLM call did:
\*   transport  create raised                  -> "LLM call failed: ..."
\*   empty      content is None or ""          -> "Empty response from LLM"
\*   nonjson    json.loads raised              -> "Failed to parse LLM JSON response: ..."
\* The message is the same whichever sub-call is running.
StageError(st, outcome) ==
    CASE outcome = "transport" -> Exc("LastenheftAnalyzerError", "LLM call failed: connection error")
      [] outcome = "empty" -> Exc("LastenheftAnalyzerError", "Empty response from LLM")
      [] outcome = "nonjson" -> Exc("LastenheftAnalyzerError", "Failed to parse LLM JSON response: Expecting value")

QualityData(completeness, clarity, specificity, feasibility, overall) ==
    [completeness |-> completeness, clarity |-> clarity, specificity |-> specificity,
     feasibility |-> feasibility, overall |-> overall, summary |-> "summary"]

QuestionData(category, priority) ==
    [question |-> "Which cloud?", category |-> category, priority |-> priority]

SkillData(name, category, mandatory, level) ==
    [name |-> name, category |-> category, mandatory |-> mandatory, level |-> level]

\* JSON objects the LLM may answer with, by stage: well-formed ones, ones
\* with a value outside the stage's model, and ones without the expected key.
StagePayloads(st) ==
    CASE st = "quality" ->
           { QualityData(80, 80, 80, 80, 80),
             QualityData(80, 60, 60, 40, 100),
             QualityData(100, 100, 100, 100, 101),
             [summary |-> "summary"] }
      [] st = "questions" ->
           { [questions |-> <<QuestionData("technical", "high")>>],
             [questions |-> <<QuestionData("legal", "high")>>],
             [note |-> "none"] }
      [] st = "skills" ->
           { [skills |-> <<SkillData("Python", "programming", TRUE, "senior"),
                           SkillData("Azure", "cloud", FALSE, None)>>],
             [skills |-> <<SkillData("Python", "programming", TRUE, "guru")>>],
             [note |-> "none"] }

QualityFields == {"completeness", "clarity", "specificity", "feasibility", "overall"}

\* QualityScore(**data): five required integers with ge=0, le=100 and a
\* required summary.
ValidQualityScore(data) ==
    /\ \A f \in QualityFields : f \in DOMAIN data /\ data[f] \in 0..100
    /\ "summary" \in DOMAIN data

\* Variant: the composite 30/25/25/20 is computed by the backend.
BuildQualityScore_Recomputed(data) ==
    [completeness |-> data.completeness, clarity |-> data.clarity,
     specificity |-> data.specificity, feasibility |-> data.feasibility,
     overall |-> (30 * data.completeness + 25 * data.clarity
                  + 25 * data.specificity + 20 * data.feasibility) \div 100,
     summary |-> data.summary]

\* The QualityScore built from validated data: every field is the given one.
BuildQualityScore(data) ==
    [completeness |-> data.completeness, clarity |-> data.clarity,
     specificity |-> data.specificity, feasibility |-> data.feasibility,
     overall |-> data.overall, summary |-> data.summary]

\* OpenQuestion(**q): category and priority must match their patterns.
ValidOpenQuestion(q) ==
    /\ q.category \in {"technical", "team", "timeline", "budget", "domain"}
    /\ q.priority \in {"high", "medium", "low"}

\* ExtractedSkill(**s): category must match its pattern, level is None or one
\* of the four levels.
ValidExtractedSkill(sk) ==
    /\ sk.category \in {"programming", "framework", "cloud", "database",
                        "methodology", "soft_skill", "domain", "other"}
    /\ sk.level \in {None, "junior", "mid", "senior", "expert"}

\* Whether the body of a sub-call after _call_llm builds its models without
\* a pydantic ValidationError.
StageValid(st, data) ==
    CASE st = "quality" -> ValidQualityScore(data)
      [] st = "questions" ->
           LET raw == Get(data, "questions", <<>>)
           IN  \A i \in 1..Len(raw) : ValidOpenQuestion(raw[i])
      [] st = "skills" ->
           LET raw == Get(data, "skills", <<>>)
           IN  \A i \in 1..Len(raw) : ValidExtractedSkill(raw[i])

\* The value a sub-call returns for valid data.
StageResult(st, data) ==
    CASE st = "quality" -> BuildQualityScore(data)
      [] st = "questions" ->
           LET raw == Get(data, "questions", <<>>)
           IN  [i \in 1..Len(raw) |->
                  [question |-> raw[i].question, category |-> raw[i].category,
                   priority |-> raw[i].priority]]
      [] st = "skills" ->
           LET raw == Get(data, "skills", <<>>)
           IN  [i \in 1..Len(raw) |->
                  [name |-> raw[i].name, mandatory |-> raw[i].mandatory, level |-> raw[i].level]]

\* The model is built outside _call_llm's try block: pydantic's error reaches
\* gather as it is.
StageValidationError(st) == Exc("ValidationError", "validation error for " \o st)

\* The LLM call of a task completes and the sub-call finishes.  The three
\* first steps run in one loop iteration, before any response can be
\* processed.
AnalyzeTaskDone ==
    /\ \E st \in AnalyzeStages, outcome \in LLMOutcomes :
         /\ a_tasks[st].state = "awaiting"
         /\ \A o \in AnalyzeStages : a_tasks[o].state # "pending"
         /\ IF outcome = "json"
            THEN \E data \in StagePayloads(st) :
                   /\ a_data' = [a_data EXCEPT ![st] = data]
                   /\ IF StageValid(st, data)
                      THEN /\ a_tasks' = [a_tasks EXCEPT ![st].state = "ok"]
                           /\ a_results' = [a_results EXCEPT ![st] = StageResult(st, data)]
                           /\ UNCHANGED a_first
                      ELSE /\ TaskFail(st, StageValidationError(st))
                           /\ UNCHANGED a_results
            ELSE /\ TaskFail(st, StageError(st, outcome))
                 /\ UNCHANGED <<a_data, a_results>>
    /\ UNCHANGED <<settings, svc_vars, index, sc_vars, env_vars, fn_call, app, auth_vars, m_vars, a_pc, a_calls, a_exc,
                   a_response>>

\* Variant: a response is built from whatever sub-calls have succeeded.
AnalyzeResume_Partial ==
    /\ a_pc = "gathering"
    /\ \A st \in AnalyzeStages : a_tasks[st].state \notin {"pending", "awaiting"}
    /\ a_pc' = "returned"
    /\ a_response' = [returned |-> TRUE,
                      quality_assessment |-> a_results["quality"],
                      open_questions |-> a_results["questions"],
                      extracted_skills |-> a_results["skills"]]
    /\ UNCHANGED a_exc
    /\ UNCHANGED <<settings, svc_vars, index, sc_vars, env_vars, fn_call, app, auth_vars, m_vars, a_tasks, a_calls, a_first,
                   a_data, a_results>>

\* analyze() resumes from gather: with the first exception as soon as one task
\* has failed (the other tasks are left running), or with the three results,
\* from which it builds the response.
AnalyzeResume ==
    /\ a_pc = "gathering"
    /\ \A st \in AnalyzeStages : a_tasks[st].state # "pending"
    /\ \/ /\ a_first # NoExc
          /\ a_pc' = "raised"
          /\ a_exc' = a_first
          /\ UNCHANGED a_response
       \/ /\ \A st \in AnalyzeStages : a_tasks[st].state = "ok"
          /\ a_pc' = "returned"
          /\ a_response' = [returned |-> TRUE,
                            quality_assessment |-> a_results["quality"],
                            open_questions |-> a_results["questions"],
                            extracted_skills |-> a_results["skills"]]
          /\ UNCHANGED a_exc
    /\ UNCHANGED <<settings, svc_vars, index, sc_vars, env_vars, fn_call, app, auth_vars, m_vars, a_tasks, a_calls, a_first,
                   a_data, a_results>>

\* analyze() against an analyzer that may be closed and initialized again
\* while the request is in flight.
InitAnalyze ==
    /\ settings \in ChatSettings
    /\ InitServices
    /\ index = <<>>
    /\ request = <<>>
    /\ llm_behaviour = "all"
    /\ InitChatIdle
    /\ InitMatchIdle
    /\ InitAnalyzeIdle

NextAnalyze ==
    \/ AnalyzerInitialize
    \/ AnalyzerClose
    \/ AnalyzeBegin
    \/ AnalyzeTaskStart
    \/ AnalyzeTaskDone
    \/ AnalyzeResume

SpecAnalyze == InitAnalyze /\ [][NextAnalyze]_vars

----------------------------------------------------------------------------
(* One request of any kind against services in any lifecycle state *)

Operations == {"stream_chat", "match", "analyze"}

\* A service as constructed, or after initialize() with its credentials set.
OpenAIStates == { NewOpenAIService, OpenAIInitialize(NewOpenAIService, AllCredentials) }
SearchStates == { NewSearchService, SearchInitialize(NewSearchService, AllCredentials) }

\* The run carries one request; the other operations are not invoked.  The
\* services are in any state their lifecycle can have left them in.
InitCalls ==
    /\ settings = AllCredentials
    /\ chat_service \in OpenAIStates
    /\ embedding_service \in OpenAIStates
    /\ search_service \in SearchStates
    /\ candidate_matcher \in OpenAIStates
    /\ lastenheft_analyzer \in OpenAIStates
    /\ index \in Indexes({"fit"}, 0, 1)
    /\ request \in RankRequests
    /\ llm_behaviour \in {"all", "raise"}
    /\ \E op \in Operations :
         /\ sc_pc = IF op = "stream_chat" THEN "idle" ELSE "unused"
         /\ m_pc = IF op = "match" THEN "idle" ELSE "unused"
         /\ a_pc = IF op = "analyze" THEN "idle" ELSE "unused"
    /\ sc_events = <<>> /\ sc_calls = <<>> /\ sc_deltas = <<>>
    /\ sc_stage = NoStage /\ sc_exc = NoExc
    /\ m_calls = <<>> /\ m_results = <<>> /\ m_top = <<>>
    /\ m_stage = NoStage /\ m_response = NoResponse /\ m_exc = NoMatchExc
    /\ a_tasks = [st \in AnalyzeStages |-> [state |-> "none", exc |-> NoExc]]
    /\ a_calls = <<>> /\ a_first = NoExc /\ a_exc = NoExc
    /\ a_data = [st \in AnalyzeStages |-> None]
    /\ a_results = [st \in AnalyzeStages |-> None]
    /\ a_response = NoResponse
    /\ fn_call = NoCall
    /\ app = "created"
    /\ cache = [jwks |-> EmptyCache, jwks_timestamp |-> EmptyCache]
    /\ clock = 0
    /\ jwks_call = NoJwksCall

NextCalls ==
    \/ StreamChatBegin
    \/ StreamChatEmbed
    \/ StreamChatEmbeddingDone
    \/ StreamChatSearchDone
    \/ StreamChatCreate
    \/ StreamChatCreateDone
    \/ StreamChatChunk
    \/ StreamChatResume
    \/ StreamChatStreamFail
    \/ StreamChatStreamEnd
    \/ StreamChatFinish
    \/ MatchBegin
    \/ MatchEmbeddingDone
    \/ MatchSearchDone
    \/ MatchExplainDone
    \/ AnalyzeBegin
    \/ AnalyzeTaskStart
    \/ AnalyzeTaskDone
    \/ AnalyzeResume

SpecCalls == InitCalls /\ [][NextCalls]_vars

----------------------------------------------------------------------------
(* The module-level scoring functions, called directly.  A run makes one     *)
(* call; fn_call keeps its arguments and its result.                         *)

FnSkillPool == SkillPool \cup { [name |-> "docker", mandatory |-> TRUE, level |-> None] }
FnEmployeeSkills == { <<>>, <<"python">>, <<"Python", "React">>, <<"Java">> }
FnEmployeeTools == { <<>>, <<"Docker">>, <<"Azure", "Docker">> }
\* The four levels, no level, and a level the table does not know.
FnLevels == {"junior", "mid", "senior", "expert", None, "principal"}
FnScores == (0 - 2)..MaxFnScore

CallSkillMatch ==
    /\ fn_call = NoCall
    /\ \E required_skills \in UNION { [1..n -> FnSkillPool] : n \in 0..MaxFnSkills },
          employee_skills \in FnEmployeeSkills, employee_tools \in FnEmployeeTools :
         fn_call' = [fn |-> "calculate_skill_match",
                     required_skills |-> required_skills,
                     employee_skills |-> employee_skills,
                     employee_tools |-> employee_tools,
                     result |-> calculate_skill_match(required_skills, employee_skills,
                                                      employee_tools)]
    /\ UNCHANGED <<settings, svc_vars, index, sc_vars, request, llm_behaviour, m_vars, a_vars, app, auth_vars>>

CallExperienceScore ==
    /\ fn_call = NoCall
    /\ \E required_level \in FnLevels, years10 \in 0..MaxYearsTenths :
         fn_call' = [fn |-> "calculate_experience_score",
                     required_level |-> required_level,
                     years10 |-> years10,
                     result |-> calculate_experience_score(required_level, years10)]
    /\ UNCHANGED <<settings, svc_vars, index, sc_vars, request, llm_behaviour, m_vars, a_vars, app, auth_vars>>

\* Two calls with the same max_score, so that their results can be compared.
CallNormalizeSearchScore ==
    /\ fn_call = NoCall
    /\ \E score \in FnScores, other_score \in FnScores, max_score \in FnScores :
         fn_call' = [fn |-> "normalize_search_score",
                     score |-> score,
                     other_score |-> other_score,
                     max_score |-> max_score,
                     result |-> normalize_search_score(score, max_score),
                     other_result |-> normalize_search_score(other_score, max_score)]
    /\ UNCHANGED <<settings, svc_vars, index, sc_vars, request, llm_behaviour, m_vars, a_vars, app, auth_vars>>

InitFunctions ==
    /\ settings = AllCredentials
    /\ InitServices
    /\ index = <<>>
    /\ request = <<>>
    /\ llm_behaviour = "all"
    /\ InitChatIdle
    /\ InitMatchIdle
    /\ InitAnalyzeIdle

NextFunctions ==
    \/ CallSkillMatch
    \/ CallExperienceScore
    \/ CallNormalizeSearchScore

SpecFunctions == InitFunctions /\ [][NextFunctions]_vars

----------------------------------------------------------------------------
(* The application's lifespan and the requests it serves *)

\* lifespan() up to its yield: the services it initializes, in order, each
\* from the process settings.  initialize() of these services never raises,
\* so the except branches only log.
LifespanStartup ==
    /\ app = "created"
    /\ embedding_service' = OpenAIInitialize(embedding_service, settings)
    /\ search_service' = SearchInitialize(search_service, settings)
    /\ chat_service' = OpenAIInitialize(chat_service, settings)
    /\ lastenheft_analyzer' = OpenAIInitialize(lastenheft_analyzer, settings)
    /\ app' = "serving"
    /\ UNCHANGED <<settings, candidate_matcher, index, sc_vars, env_vars, fn_call, m_vars, a_vars, auth_vars>>

\* lifespan() after its yield: the services it closes.
LifespanShutdown ==
    /\ app = "serving"
    /\ embedding_service' = OpenAIClose(embedding_service)
    /\ search_service' = SearchClose(search_service)
    /\ chat_service' = OpenAIClose(chat_service)
    /\ lastenheft_analyzer' = OpenAIClose(lastenheft_analyzer)
    /\ app' = "stopped"
    /\ UNCHANGED <<settings, candidate_matcher, index, sc_vars, env_vars, fn_call, m_vars, a_vars, auth_vars>>

\* POST /match while the application serves: the endpoint awaits
\* candidate_matcher.match.
MatchEndpoint ==
    /\ app = "serving"
    /\ MatchBegin

\* POST /analyze while the application serves: the endpoint awaits
\* lastenheft_analyzer.analyze.
AnalyzeEndpoint ==
    /\ app = "serving"
    /\ AnalyzeBegin

InitApp ==
    /\ settings \in SettingsSet
    /\ InitServices
    /\ index = <<>>
    /\ request \in RankRequests
    /\ llm_behaviour = "all"
    /\ InitChatIdle
    /\ InitMatchIdle
    /\ InitAnalyzeIdle

NextApp ==
    \/ LifespanStartup
    \/ LifespanShutdown
    \/ MatchEndpoint
    \/ AnalyzeEndpoint
    \/ AnalyzeTaskStart
    \/ AnalyzeTaskDone
    \/ AnalyzeResume

SpecApp == InitApp /\ [][NextApp]_vars

----------------------------------------------------------------------------
(* initialize(settings) and close() called in any order, with any settings *)

\* The record of a lifecycle call: initialize() and close() return None and
\* have no raise statement.
LifecycleCall(fn, service, s) ==
    [fn |-> fn, service |-> service, settings |-> s, raised |-> FALSE]

\* CandidateMatcher.initialize(settings) with any settings object.
CallMatcherInitialize ==
    \E s \in SettingsSet :
        /\ candidate_matcher' = OpenAIInitialize(candidate_matcher, s)
        /\ fn_call' = LifecycleCall("initialize", "candidate_matcher", s)
        /\ UNCHANGED <<settings, chat_service, embedding_service, search_service,
                       lastenheft_analyzer, index, sc_vars, env_vars, app, m_vars, a_vars, auth_vars>>

\* CandidateMatcher.close()
CallMatcherClose ==
    /\ candidate_matcher' = OpenAIClose(candidate_matcher)
    /\ fn_call' = LifecycleCall("close", "candidate_matcher", settings)
    /\ UNCHANGED <<settings, chat_service, embedding_service, search_service,
                   lastenheft_analyzer, index, sc_vars, env_vars, app, m_vars, a_vars, auth_vars>>

\* LastenheftAnalyzer.initialize(settings) with any settings object.
CallAnalyzerInitialize ==
    \E s \in SettingsSet :
        /\ lastenheft_analyzer' = OpenAIInitialize(lastenheft_analyzer, s)
        /\ fn_call' = LifecycleCall("initialize", "lastenheft_analyzer", s)
        /\ UNCHANGED <<settings, chat_service, embedding_service, search_service,
                       candidate_matcher, index, sc_vars, env_vars, app, m_vars, a_vars, auth_vars>>

\* LastenheftAnalyzer.close()
CallAnalyzerClose ==
    /\ lastenheft_analyzer' = OpenAIClose(lastenheft_analyzer)
    /\ fn_call' = LifecycleCall("close", "lastenheft_analyzer", settings)
    /\ UNCHANGED <<settings, chat_service, embedding_service, search_service,
                   candidate_matcher, index, sc_vars, env_vars, app, m_vars, a_vars, auth_vars>>

InitLifecycle ==
    /\ settings = AllCredentials
    /\ InitServices
    /\ index = <<>>
    /\ request = <<>>
    /\ llm_behaviour = "all"
    /\ InitChatIdle
    /\ InitMatchIdle
    /\ InitAnalyzeIdle

NextLifecycle ==
    \/ CallMatcherInitialize
    \/ CallMatcherClose
    \/ CallAnalyzerInitialize
    \/ CallAnalyzerClose

SpecLifecycle == InitLifecycle /\ [][NextLifecycle]_vars

----------------------------------------------------------------------------
(* app.core.auth.get_jwks and its per-tenant cache *)

MaxDays == 2             \* the clock runs from 0 to MaxDays days (and a second)

_JWKS_TTL_SECONDS == 24 * 60 * 60

Tenants == {"tenant-a", "tenant-b"}

\* Key sets the discovery endpoint may serve.
KeySets == {"keys-1", "keys-2"}

\* What the fetch does: the body parses ("ok"); urlopen raises URLError or
\* HTTPError; or reading or parsing the body raises something else
\* (TimeoutError from resp.read(), json.JSONDecodeError from json.loads).
FetchOutcomes == {"ok", "URLError", "TimeoutError", "JSONDecodeError"}

\* d[key] = value
DictSet(d, key, value) ==
    [k \in DOMAIN d \cup {key} |-> IF k = key THEN value ELSE d[k]]

\* The instants at which the clock is read: around each multiple of the TTL.
ClockValues ==
    { t \in { k * _JWKS_TTL_SECONDS + e : k \in 0..MaxDays, e \in {-1, 0, 1} } : t >= 0 }

\* time.time() moves on between calls.
TimePasses ==
    /\ \E t \in ClockValues : t > clock /\ clock' = t
    /\ UNCHANGED <<settings, svc_vars, index, sc_vars, env_vars, fn_call, app, m_vars, a_vars,
                   cache, jwks_call>>

\* The cache test at the head of get_jwks.
CacheFresh(tenant_id) ==
    /\ tenant_id \in DOMAIN cache.jwks
    /\ tenant_id \in DOMAIN cache.jwks_timestamp
    /\ clock - cache.jwks_timestamp[tenant_id] < _JWKS_TTL_SECONDS

\* get_jwks(tenant_id), with what the fetch does if it is attempted.
get_jwks(tenant_id, outcome, body) ==
    /\ IF CacheFresh(tenant_id)
       THEN /\ jwks_call' = [tenant |-> tenant_id, fetched |-> FALSE, outcome |-> "none",
                             returned |-> cache.jwks[tenant_id], raised |-> "none"]
            /\ UNCHANGED cache
       ELSE IF outcome = "ok"
       THEN /\ cache' = [jwks |-> DictSet(cache.jwks, tenant_id, body),
                         jwks_timestamp |-> DictSet(cache.jwks_timestamp, tenant_id, clock)]
            /\ jwks_call' = [tenant |-> tenant_id, fetched |-> TRUE, outcome |-> outcome,
                             returned |-> body, raised |-> "none"]
       ELSE IF outcome = "URLError"
       THEN /\ jwks_call' =
                   IF tenant_id \in DOMAIN cache.jwks
                   THEN [tenant |-> tenant_id, fetched |-> TRUE, outcome |-> outcome,
                         returned |-> cache.jwks[tenant_id], raised |-> "none"]
                   ELSE [tenant |-> tenant_id, fetched |-> TRUE, outcome |-> outcome,
                         returned |-> None, raised |-> "HTTPException 503"]
            /\ UNCHANGED cache
       ELSE /\ jwks_call' = [tenant |-> tenant_id, fetched |-> TRUE, outcome |-> outcome,
                             returned |-> None, raised |-> outcome]
            /\ UNCHANGED cache
    /\ UNCHANGED <<settings, svc_vars, index, sc_vars, env_vars, fn_call, app, m_vars, a_vars,
                   clock>>

InitAuth ==
    /\ settings = AllCredentials
    /\ InitServices
    /\ index = <<>>
    /\ request = <<>>
    /\ llm_behaviour = "all"
    /\ InitChatIdle
    /\ InitMatchIdle
    /\ InitAnalyzeIdle

NextAuth ==
    \/ \E tenant_id \in Tenants, outcome \in FetchOutcomes, body \in KeySets :
          get_jwks(tenant_id, outcome, body)
    \/ TimePasses

SpecAuth == InitAuth /\ [][NextAuth]_vars

----------------------------------------------------------------------------
(* Properties of match() *)

Min(a, b) == IF a < b THEN a ELSE b
MatchCalled(fn) == \E i \in 1..Len(m_calls) : m_calls[i].fn = fn
RequestNames == [i \in 1..Len(request) |-> request[i].name]
\* The records the search collaborator returns for this index.
SearchCount == Min(Len(index), SEARCH_TOP)

\* C5: for a non-empty list of n search results the returned matches are in
\* non-increasing total_score order, there are min(n, 10) of them, and
\* total_candidates_searched is n.
C5_RankingInvariant ==
    (m_pc = "returned" /\ SearchCount >= 1) =>
        /\ \A i, j \in 1..Len(m_response.matches) :
              i < j => m_response.matches[i].total_score >= m_response.matches[j].total_score
        /\ Len(m_response.matches) = Min(SearchCount, 10)
        /\ m_response.total_candidates_searched = SearchCount

\* C5 witness: eleven results, the first of them not the best, are ranked and
\* cut to ten with different scores at both ends.
C5_Witness ==
    /\ m_pc = "returned"
    /\ Len(index) = 11
    /\ Len(m_response.matches) = 10
    /\ m_response.matches[1].employee_alias # "e1"
    /\ m_response.matches[1].total_score > m_response.matches[10].total_score

\* C6 as stated: when the explanation call raises, match() does not raise and
\* returns every ranked candidate, in ranking order and with its score, with
\* an empty explanation.
C6_ExplanationFailureDegrades ==
    m_stage.llm = "fail" =>
        /\ m_pc = "returned"
        /\ Len(m_response.matches) = Len(m_top)
        /\ \A i \in 1..Len(m_top) :
              /\ m_response.matches[i].employee_alias = m_top[i].result.employee_alias
              /\ m_response.matches[i].total_score = m_top[i].total
              /\ m_response.matches[i].explanation = ""

\* C7 as stated: once embedding and search have succeeded, match() never
\* raises, whatever the explanation stage and the search records look like.
C7_NeverRaisesAfterSearch ==
    (m_stage.embedding = "ok" /\ m_stage.search = "ok") => m_pc # "raised"

\* C8: a failed embedding or search call ends match() with a
\* CandidateMatcherError that names the stage and carries the cause; no later
\* stage has run and no response exists.
C8_FatalStages ==
    /\ m_stage.embedding = "fail" =>
          /\ m_pc = "raised"
          /\ m_exc.type = "CandidateMatcherError"
          /\ m_exc.cause # NoExc
          /\ m_exc.msg = "Embedding failed: " \o m_exc.cause.msg
          /\ ~MatchCalled("hybrid_search")
          /\ ~MatchCalled("chat.completions.create")
          /\ m_top = <<>>
          /\ m_response = NoResponse
    /\ m_stage.search = "fail" =>
          /\ m_pc = "raised"
          /\ m_exc.type = "CandidateMatcherError"
          /\ m_exc.cause # NoExc
          /\ m_exc.msg = "Search failed: " \o m_exc.cause.msg
          /\ ~MatchCalled("chat.completions.create")
          /\ m_top = <<>>
          /\ m_response = NoResponse

\* C8 witness: the search request failed after a successful embedding.
C8_Witness ==
    /\ m_stage.embedding = "ok"
    /\ m_stage.search = "fail"
    /\ m_exc.cause = Exc("RuntimeError", "Search failed: 503")

\* C9: an operation entered while its service is not initialized ends at once
\* with the service's not-initialized error: no collaborator has been called
\* and no event emitted, and nothing happens afterwards.
C9_NotInitializedGuard ==
    [][ /\ (m_pc = "idle" /\ m_pc' # "idle" /\ NotInitialized(candidate_matcher)) =>
              /\ m_pc' = "raised"
              /\ m_exc' = ExcFrom("CandidateMatcherError", "CandidateMatcher not initialized", NoExc)
              /\ m_calls' = <<>>
        /\ (a_pc = "idle" /\ a_pc' # "idle" /\ NotInitialized(lastenheft_analyzer)) =>
              /\ a_pc' = "raised"
              /\ a_exc' = Exc("LastenheftAnalyzerError", "LastenheftAnalyzer not initialized")
              /\ a_calls' = <<>>
              /\ \A st \in AnalyzeStages : a_tasks'[st].state = "none"
        /\ (sc_pc = "idle" /\ sc_pc' # "idle" /\ NotInitialized(chat_service)) =>
              /\ sc_pc' = "raised"
              /\ sc_exc' = Exc("RuntimeError", "ChatService not initialized")
              /\ sc_calls' = <<>>
              /\ sc_events' = <<>>
        /\ m_pc = "raised" => UNCHANGED m_vars
        /\ (a_pc = "raised" /\ \A st \in AnalyzeStages : a_tasks[st].state = "none") =>
              UNCHANGED a_vars
        /\ sc_pc = "raised" => UNCHANGED sc_vars
      ]_vars

\* C9 witness: analyze() was called on an uninitialized analyzer and raised
\* before any LLM call.
C9_Witness ==
    /\ a_pc = "raised"
    /\ NotInitialized(lastenheft_analyzer)
    /\ a_calls = <<>>

\* C10: when the search returns no record, match() returns matches = [],
\* total_candidates_searched = 0 and query_skills = every requested name in
\* input order, without calling the explanation LLM.
C10_EmptySearch ==
    (m_stage.search = "ok" /\ SearchCount = 0) =>
        /\ m_pc = "returned"
        /\ m_response = [returned |-> TRUE, matches |-> <<>>,
                         total_candidates_searched |-> 0,
                         query_skills |-> RequestNames]
        /\ ~MatchCalled("chat.completions.create")

\* C10 witness: an empty result for a request with one mandatory and one
\* optional skill.
C10_Witness ==
    /\ m_pc = "returned"
    /\ index = <<>>
    /\ Len(request) = 2
    /\ request[1].mandatory /\ ~request[2].mandatory
    /\ m_response.query_skills = <<request[1].name, request[2].name>>

----------------------------------------------------------------------------
(* Properties of analyze() *)

SomeTaskFailed == \E st \in AnalyzeStages : a_tasks[st].state = "failed"
AllTasksOk == \A st \in AnalyzeStages : a_tasks[st].state = "ok"

\* C11: analyze() returns a response only when all three sub-calls succeeded;
\* once a sub-call has raised, analyze() does not return, no response exists,
\* and the exception it ends with is that of a failed sub-call.
C11_AllOrNothing ==
    /\ a_pc = "returned" => (AllTasksOk /\ a_response.returned /\ a_exc = NoExc)
    /\ SomeTaskFailed => (a_pc \in {"gathering", "raised"} /\ a_response = NoResponse)
    /\ (a_pc = "raised" /\ SomeTaskFailed) =>
          /\ a_exc # NoExc
          /\ \E st \in AnalyzeStages : a_tasks[st].state = "failed" /\ a_tasks[st].exc = a_exc

\* C11 witness: two sub-calls succeeded, the third raised, and analyze()
\* raised without a response.
C11_Witness ==
    /\ a_pc = "raised"
    /\ a_tasks["quality"].state = "ok"
    /\ a_tasks["questions"].state = "ok"
    /\ a_tasks["skills"].state = "failed"
    /\ a_response = NoResponse

\* C12 as stated: whatever makes a stage fail, the error analyze() raises is
\* the domain error LastenheftAnalyzerError.
C12_DomainErrorOnStageFailure ==
    (a_pc = "raised" /\ SomeTaskFailed) => a_exc.type = "LastenheftAnalyzerError"

\* C20: the overall value of the returned quality assessment is the one the
\* LLM reported, whether or not it equals the 30/25/25/20 composite of the
\* other four values.
C20_OverallPassedThrough ==
    a_pc = "returned" =>
        a_response.quality_assessment.overall = a_data["quality"].overall

\* C20 witness: a response whose overall differs from the composite of its
\* own components.
C20_Witness ==
    /\ a_pc = "returned"
    /\ LET q == a_response.quality_assessment
       IN  100 * q.overall # 30 * q.completeness + 25 * q.clarity
                             + 25 * q.specificity + 20 * q.feasibility

----------------------------------------------------------------------------
(* Properties of the scores match() returns *)

\* round(0.40*a + 0.25*b + 0.20*c + 0.15*d, 4) of a breakdown whose values are
\* in 1e-4 units.
WeightedTotalOf(b) ==
    Round4(Q(40 * b.skill_match + 25 * b.experience
             + 20 * b.semantic_similarity + 15 * b.availability, 1000000))

\* C13 as stated: the total_score of every returned match is the rounded
\* weighted sum of the four values of its returned breakdown.
C13_TotalFromBreakdown ==
    m_pc = "returned" =>
        \A i \in 1..Len(m_response.matches) :
            m_response.matches[i].total_score = WeightedTotalOf(m_response.matches[i].breakdown)

\* A rational of the model as a number in [0, 1].
QInUnit(q) == q.d > 0 /\ 0 <= q.n /\ q.n <= q.d
QLeq(a, b) == a.n * b.d <= b.n * a.d

\* C14: every ranked candidate has all four breakdown components, each in
\* [0,1]; the weights sum to 1.0; total_score is in [0,1]; availability is 0.8.
C14_ScoresBounded ==
    /\ WEIGHT_SKILL_MATCH + WEIGHT_EXPERIENCE + WEIGHT_SEMANTIC + WEIGHT_AVAILABILITY = 100
    /\ \A i \in 1..Len(m_top) :
          /\ DOMAIN m_top[i].breakdown =
                {"skill_match", "experience", "semantic_similarity", "availability"}
          /\ \A f \in DOMAIN m_top[i].breakdown : m_top[i].breakdown[f] \in 0..10000
          /\ m_top[i].breakdown.availability = 8000
          /\ m_top[i].total \in 0..10000

\* C14 witness: a ranking that holds a candidate with full skill match and one
\* with none.
C14_Witness ==
    /\ m_pc = "returned"
    /\ \E i, j \in 1..Len(m_top) :
          /\ m_top[i].breakdown.skill_match = 10000
          /\ m_top[j].breakdown.skill_match = 0
          /\ m_top[j].breakdown.semantic_similarity = 10000

\* The names of the mandatory skills if there are any, of all skills
\* otherwise, in input order.
QueryNamesOf(skills) ==
    LET mandatory == SelectSeq(skills, LAMBDA sk : sk.mandatory)
        chosen == IF Len(mandatory) > 0 THEN mandatory ELSE skills
    IN  [i \in 1..Len(chosen) |-> chosen[i].name]

\* C15: the embedding request and the hybrid search both receive the query
\* text built from the mandatory skill names (all names when none is
\* mandatory) joined by single spaces in input order; query_skills of a
\* response lists every requested name in input order.
C15_QueryConstruction ==
    /\ \A i \in 1..Len(m_calls) :
          m_calls[i].fn \in {"get_embedding", "hybrid_search"} =>
              m_calls[i].text = JoinSpace(QueryNamesOf(request))
    /\ m_pc = "returned" => m_response.query_skills = RequestNames

\* C15 witness: an optional skill followed by a mandatory one; both
\* collaborators were called and candidates were returned.
C15_Witness ==
    /\ m_pc = "returned"
    /\ Len(request) = 2 /\ ~request[1].mandatory /\ request[2].mandatory
    /\ MatchCalled("get_embedding") /\ MatchCalled("hybrid_search")
    /\ m_calls[2].text = request[2].name
    /\ Len(m_response.matches) > 0
    /\ m_response.query_skills = <<request[1].name, request[2].name>>

\* Weight 2 for a mandatory skill, 1 for an optional one, summed over the
\* positions in I.
WeightOver(required, I) ==
    2 * Cardinality({ i \in I : required[i].mandatory })
    + Cardinality({ i \in I : ~required[i].mandatory })

\* C16: calculate_skill_match is 0 for an empty required list or an empty
\* union of employee skills and tools; otherwise it is the weight of the
\* required skills found (case-insensitively) in that union over the weight of
\* all required skills; it is always in [0,1].
C16_SkillMatch ==
    fn_call.fn = "calculate_skill_match" =>
        LET required == fn_call.required_skills
            union == { Lower(fn_call.employee_skills[i]) : i \in 1..Len(fn_call.employee_skills) }
                     \cup { Lower(fn_call.employee_tools[i]) : i \in 1..Len(fn_call.employee_tools) }
            found == { i \in 1..Len(required) : Lower(required[i].name) \in union }
            r == fn_call.result
        IN  /\ QInUnit(r)
            /\ IF Len(required) = 0 \/ union = {}
               THEN r.n = 0
               ELSE r.n * WeightOver(required, 1..Len(required)) = r.d * WeightOver(required, found)

\* C16 witness: a mandatory skill found under a different case and an
\* optional skill not found give 2/3.
C16_Witness ==
    /\ fn_call.fn = "calculate_skill_match"
    /\ fn_call.employee_skills = <<"python">>
    /\ Len(fn_call.required_skills) = 2
    /\ fn_call.required_skills[1].name = "Python"
    /\ fn_call.result = [n |-> 2, d |-> 3]

\* The ideal range of a level, in years.
IdealRangeOf(level) ==
    IF level = "junior" THEN <<0, 2>>
    ELSE IF level = "senior" THEN <<5, 10>>
    ELSE IF level = "expert" THEN <<8, 20>>
    ELSE <<2, 5>>

\* C17: calculate_experience_score is in [0,1]; it is 0.7 when no level is
\* required; otherwise it is max(0, 1 - |years - mid| / (width/2 + 2)) for the
\* level's range, an unknown level using the mid range.
C17_ExperienceScore ==
    fn_call.fn = "calculate_experience_score" =>
        LET r == fn_call.result
            lo == IdealRangeOf(fn_call.required_level)[1]
            hi == IdealRangeOf(fn_call.required_level)[2]
            \* in twentieths of a year
            distance == IF 2 * fn_call.years10 >= 10 * (lo + hi)
                        THEN 2 * fn_call.years10 - 10 * (lo + hi)
                        ELSE 10 * (lo + hi) - 2 * fn_call.years10
            spread == 10 * (hi - lo) + 40
        IN  /\ QInUnit(r)
            /\ IF fn_call.required_level = None
               THEN r.n * 10 = r.d * 7
               ELSE IF distance >= spread
                    THEN r.n = 0
                    ELSE r.n * spread = r.d * (spread - distance)

\* C17 witness: an expert requirement met with 20 years scores 1 - 6/8.
C17_Witness ==
    /\ fn_call.fn = "calculate_experience_score"
    /\ fn_call.required_level = "expert"
    /\ fn_call.years10 = 200
    /\ fn_call.result = [n |-> 1, d |-> 4]

\* C18: normalize_search_score is in [0,1], is 0 whenever max_score <= 0, and
\* for a positive max_score does not decrease when the score grows.
C18_NormalizeSearchScore ==
    fn_call.fn = "normalize_search_score" =>
        /\ QInUnit(fn_call.result)
        /\ QInUnit(fn_call.other_result)
        /\ fn_call.max_score <= 0 => fn_call.result.n = 0
        /\ (fn_call.max_score > 0 /\ fn_call.score <= fn_call.other_score) =>
              QLeq(fn_call.result, fn_call.other_result)

\* C18 witness: under a positive maximum, a score above the maximum is
\* clamped to 1 and a smaller one is strictly below it.
C18_Witness ==
    /\ fn_call.fn = "normalize_search_score"
    /\ fn_call.max_score > 0
    /\ 0 < fn_call.score /\ fn_call.score < fn_call.max_score
    /\ fn_call.other_score > fn_call.max_score
    /\ fn_call.other_result = [n |-> 1, d |-> 1]
    /\ fn_call.result.n < fn_call.result.d

\* C19 as stated: every record handed over by hybrid_search carries
\* employee_alias, skills, tools, years_of_experience and score.
C19_RecordKeys ==
    \A i \in 1..Len(m_results) :
        {"employee_alias", "skills", "tools", "years_of_experience", "score"}
            \subseteq DOMAIN m_results[i]

----------------------------------------------------------------------------
(* Properties of the ranking pipeline of match() *)

\* The experience component, in 1e-4 units, that a required level gives a
\* record (records carry no years, which reads as 0 years).
ExperienceFor(level) == Round4(calculate_experience_score(level, 0))

\* The level of the first mandatory skill if that skill has one, otherwise
\* the level of the first skill of the list, otherwise None.
LevelAsStated(skills) ==
    LET mandatory == SelectSeq(skills, LAMBDA sk : sk.mandatory)
    IN  IF Len(mandatory) > 0 /\ mandatory[1].level # None THEN mandatory[1].level
        ELSE IF Len(skills) > 0 THEN skills[1].level
        ELSE None

\* The level of the first mandatory skill that has a level, otherwise of the
\* first skill that has a level, otherwise None.
LevelAmended(skills) ==
    LET mandatory == SelectSeq(skills, LAMBDA sk : sk.mandatory /\ sk.level # None)
        levelled == SelectSeq(skills, LAMBDA sk : sk.level # None)
    IN  IF Len(mandatory) > 0 THEN mandatory[1].level
        ELSE IF Len(levelled) > 0 THEN levelled[1].level
        ELSE None

C22_JoinWaitsForAll ==
    (a_pc \in {"returned", "raised"} /\ \E st \in AnalyzeStages : a_tasks[st].state # "none") =>
        \A st \in AnalyzeStages : a_tasks[st].state \in {"ok", "failed"}

\* The largest raw score of the whole batch of search results (1 when it is 0).
BatchMaximum ==
    LET scores == { m_results[i].score : i \in 1..Len(m_results) }
        top == CHOOSE x \in scores : \A y \in scores : y <= x
    IN  IF top = 0 THEN 1 ELSE top

\* C23: every ranked candidate's semantic_similarity is its raw score
\* normalised by the maximum over the full batch of search results, also when
\* the candidate holding that maximum has been cut by the truncation.
C23_BatchMaximumUsed ==
    m_top # <<>> =>
        \A maximum \in { BatchMaximum } :
            \A i \in 1..Len(m_top) :
                m_top[i].breakdown.semantic_similarity =
                    Round4(normalize_search_score(m_top[i].result.score, maximum))

\* C23 witness: eleven results; the only candidate with the maximal raw score
\* is cut, and the retained ones keep a semantic_similarity of 1/3.
C23_Witness ==
    /\ m_pc = "returned"
    /\ Len(m_results) = 11
    /\ Len(m_top) = 10
    /\ \A i \in 1..Len(m_top) : m_top[i].result.score < BatchMaximum
    /\ m_top[1].breakdown.semantic_similarity = 3333

\* Position of a ranked candidate in the search results.
SearchPosition(c) ==
    CHOOSE k \in 1..Len(m_results) : m_results[k].employee_alias = c.result.employee_alias

\* C24: candidates with equal total_score keep their search order in the
\* ranking, and of the candidates tied across the cut-off the ones earlier in
\* search order are retained.
C24_StableRanking ==
    m_top # <<>> =>
        \A pos \in { SubSeq([j \in 1..Len(m_top) |-> SearchPosition(m_top[j])], 1, Len(m_top)) } :
            /\ \A i, j \in 1..Len(m_top) :
                  (i < j /\ m_top[i].total = m_top[j].total) => pos[i] < pos[j]
            /\ Len(m_results) > Len(m_top) =>
                  \A scored \in { ScoreAll(m_results, request) } :
                      \A k \in (1..Len(m_results)) \ { pos[j] : j \in 1..Len(m_top) } :
                          \A i \in 1..Len(m_top) :
                              scored[k].total = m_top[i].total => pos[i] < k

\* C24 witness: eleven candidates with one and the same total; the first ten
\* in search order are returned in search order.
C24_Witness ==
    /\ m_pc = "returned"
    /\ Len(m_results) = 11
    /\ \A k \in 1..Len(index) : index[k].score = index[1].score /\ index[k].skills = index[1].skills
    /\ m_top[1].total = m_top[10].total
    /\ [i \in 1..10 |-> m_response.matches[i].employee_alias]
          = <<"e1", "e2", "e3", "e4", "e5", "e6", "e7", "e8", "e9", "e10">>

CreateCalls == { i \in 1..Len(m_calls) : m_calls[i].fn = "chat.completions.create" }

\* The text the LLM of the model gives for an alias listed in its prompt, or
\* the empty string when its answer has no entry for the alias.
ExplanationGiven(alias, listed) ==
    IF llm_behaviour = "all" \/ (llm_behaviour = "first_only" /\ alias = listed[1])
    THEN "fits: " \o alias
    ELSE ""

\* C25: the explanation request is made at most once, and once when matches
\* are returned; it lists exactly the truncated ranking, which is what is
\* returned; each match carries the text the LLM gave for its alias, or the
\* empty string when the answer has none for it.
C25_Explanations ==
    /\ Cardinality(CreateCalls) <= 1
    /\ \A i \in CreateCalls :
          /\ m_calls[i].aliases = [j \in 1..Len(m_top) |-> m_top[j].result.employee_alias]
          /\ Len(m_calls[i].aliases) <= 10
    /\ (m_pc = "returned" /\ m_results # <<>>) =>
          /\ Cardinality(CreateCalls) = 1
          /\ \A i \in CreateCalls :
                /\ Len(m_response.matches) = Len(m_calls[i].aliases)
                /\ \A j \in 1..Len(m_response.matches) :
                      /\ m_response.matches[j].employee_alias = m_calls[i].aliases[j]
                      /\ m_response.matches[j].explanation =
                            ExplanationGiven(m_calls[i].aliases[j], m_calls[i].aliases)

\* C25 witness: eleven candidates, ten listed and returned, the LLM explained
\* only the first of them.
C25_Witness ==
    /\ m_pc = "returned"
    /\ Len(m_results) = 11
    /\ Len(m_response.matches) = 10
    /\ llm_behaviour = "first_only"
    /\ m_response.matches[1].explanation # ""
    /\ m_response.matches[2].explanation = ""

----------------------------------------------------------------------------
(* Properties of the application's lifespan *)

\* C26: while the application serves, every collaborator whose credentials
\* are configured (embedding, search, chat, analyzer, candidate matcher) is
\* initialized, after shutdown none is, and with all credentials configured
\* a match request does not fail with 'CandidateMatcher not initialized'.
C26_CollaboratorsReady ==
    /\ (app = "serving" /\ settings.OPENAI_ENDPOINT /\ settings.OPENAI_API_KEY) =>
           /\ embedding_service.initialized
           /\ chat_service.initialized
           /\ lastenheft_analyzer.initialized
           /\ candidate_matcher.initialized
    /\ (app = "serving" /\ settings.AZURE_SEARCH_ENDPOINT /\ settings.AZURE_SEARCH_KEY) =>
           search_service.initialized
    /\ app = "stopped" =>
           /\ ~embedding_service.initialized
           /\ ~search_service.initialized
           /\ ~chat_service.initialized
           /\ ~lastenheft_analyzer.initialized
           /\ ~candidate_matcher.initialized
    /\ (settings = AllCredentials /\ m_pc = "raised") =>
           m_exc.msg # "CandidateMatcher not initialized"

LifecycleServices == {"candidate_matcher", "lastenheft_analyzer"}

\* The service a lifecycle call was made on, before and after the call.
ServiceOf(name) ==
    IF name = "candidate_matcher" THEN candidate_matcher ELSE lastenheft_analyzer

CredentialsMissing(s) == ~s.OPENAI_ENDPOINT \/ ~s.OPENAI_API_KEY

\* C27: for CandidateMatcher and LastenheftAnalyzer, after every initialize
\* or close call: initialized is true only if client is set; initialize on
\* an initialized service changes nothing; initialize with a missing
\* endpoint or key on an uninitialized service leaves it uninitialized and
\* does not raise; close leaves initialized false and client unset.
C27_Lifecycle ==
    [][\A name \in LifecycleServices :
          /\ ServiceOf(name)'.initialized => ServiceOf(name)'.client
          /\ (fn_call'.fn = "initialize" /\ fn_call'.service = name) =>
                 /\ ServiceOf(name).initialized => ServiceOf(name)' = ServiceOf(name)
                 /\ (~ServiceOf(name).initialized /\ CredentialsMissing(fn_call'.settings)) =>
                        /\ ~ServiceOf(name)'.initialized
                        /\ ~ServiceOf(name)'.client
                 /\ ~fn_call'.raised
          /\ (fn_call'.fn = "close" /\ fn_call'.service = name) =>
                 /\ ~ServiceOf(name)'.initialized
                 /\ ~ServiceOf(name)'.client
                 /\ ~fn_call'.raised]_vars

\* initialize with a missing key was called on the closed matcher while the
\* analyzer, initialized earlier, stays initialized.
C27_Witness ==
    /\ fn_call.fn = "initialize"
    /\ fn_call.service = "candidate_matcher"
    /\ CredentialsMissing(fn_call.settings)
    /\ ~candidate_matcher.initialized
    /\ lastenheft_analyzer.initialized
    /\ lastenheft_analyzer.client

----------------------------------------------------------------------------
(* Properties of stream_chat under failure and shutdown *)

\* C28: when the LLM stage of stream_chat fails, the events are exactly
\* start, search_complete, the tokens emitted so far, then one error; the
\* failing step keeps the events emitted before it and appends only the
\* error, and no later step emits anything.
C28_StreamFailureSequence ==
    [][/\ sc_stage'.llm = "fail" =>
             /\ sc_events' = <<StartEv, SearchCompleteEv(Len(Take(index, CHAT_TOP)))>>
                              \o TokenEvents(NonEmptyContents(sc_deltas'))
                              \o <<sc_events'[Len(sc_events')]>>
             /\ sc_events'[Len(sc_events')].event = "error"
             /\ sc_stage.llm # "fail" => sc_events' = Append(sc_events, sc_events'[Len(sc_events')])
       /\ sc_stage.llm = "fail" => sc_events' = sc_events]_vars

\* C28 witness: the stream failed after two tokens and the generator returned.
C28_Witness ==
    /\ sc_stage.llm = "fail"
    /\ sc_pc = "done"
    /\ CountEvent("token") = 2
    /\ sc_events[Len(sc_events)] = ErrorEv("stream interrupted")

\* A resumption or completion of the in-flight stream_chat.
StreamChatStep ==
    \/ StreamChatEmbed
    \/ StreamChatEmbeddingDone
    \/ StreamChatSearchDone
    \/ StreamChatCreate
    \/ StreamChatCreateDone
    \/ StreamChatStreamFail
    \/ StreamChatStreamEnd
    \/ StreamChatFinish
    \/ StreamChatResume

TerminalEvents == { i \in 1..Len(sc_events) : sc_events[i].event \in {"complete", "error"} }

\* C29: whatever close() calls on the chat, embedding or search service
\* happen while stream_chat is in flight, once start has been emitted no
\* exception leaves the generator, the generator can always proceed until it
\* returns, and when it has returned there is exactly one terminal event
\* (complete or error) and it is the last event.
C29_CloseInFlight ==
    sc_events # <<>> =>
        /\ sc_pc # "raised"
        /\ sc_exc = NoExc
        /\ sc_pc # "done" => ENABLED StreamChatStep
        /\ sc_pc = "done" => TerminalEvents = { Len(sc_events) }

\* C29 witness: the chat service was closed after search_complete was emitted;
\* the generator reported the cleared client as an error event and returned.
C29_Witness ==
    /\ sc_pc = "done"
    /\ NotInitialized(chat_service)
    /\ sc_events = <<StartEv, SearchCompleteEv(Len(Take(index, CHAT_TOP))),
                     ErrorEv("'NoneType' object has no attribute 'chat'")>>

----------------------------------------------------------------------------
(* Properties of the JWKS cache *)

\* The tenant has a cached key set: some fetch for it has succeeded.
EverFetched(tenant_id) == tenant_id \in DOMAIN cache.jwks

\* C30: in every get_jwks call for a tenant: less than 24 hours after the
\* tenant's last successful fetch the cached key set is returned without a
\* fetch; otherwise a fetch is made, and a successful one replaces the entry
\* and its timestamp; after a successful fetch a failing fetch returns the
\* cached key set; and 503 is raised only when the fetch fails and nothing
\* was cached for the tenant.
C30_JwksCache ==
    [][\A tenant_id \in Tenants :
          (\E outcome \in FetchOutcomes, body \in KeySets : get_jwks(tenant_id, outcome, body)) =>
              /\ (EverFetched(tenant_id)
                  /\ clock - cache.jwks_timestamp[tenant_id] < _JWKS_TTL_SECONDS) =>
                     /\ ~jwks_call'.fetched
                     /\ jwks_call'.returned = cache.jwks[tenant_id]
                     /\ cache' = cache
              /\ (EverFetched(tenant_id)
                  /\ clock - cache.jwks_timestamp[tenant_id] >= _JWKS_TTL_SECONDS) =>
                     /\ jwks_call'.fetched
                     /\ jwks_call'.outcome = "ok" =>
                            /\ cache'.jwks[tenant_id] = jwks_call'.returned
                            /\ cache'.jwks_timestamp[tenant_id] = clock
              /\ (EverFetched(tenant_id) /\ jwks_call'.fetched /\ jwks_call'.outcome # "ok") =>
                     /\ jwks_call'.raised = "none"
                     /\ jwks_call'.returned = cache.jwks[tenant_id]
              /\ jwks_call'.raised = "HTTPException 503" =>
                     /\ jwks_call'.fetched
                     /\ jwks_call'.outcome # "ok"
                     /\ ~EverFetched(tenant_id)]_vars

====
